---------------------------- MODULE Spec2Model ----------------------------
(***************************************************************************)
(* HYDRA digital twin: the seeded telemetry simulator (engine/simulator.py,*)
(* core/models.py) and the analytics functions (engine/analytics.py).      *)
(*                                                                         *)
(* Numbers.  The program computes in floating point; the model computes in *)
(* exact fixed point, one unit per quantity:                               *)
(*   irradiance            1e-3 W/m2      desalination rate   1e-6 L/hr    *)
(*   membrane, biofouling  1e-3 %         pH, turbidity       1e-4         *)
(*   heavy metal           1e-7 PPM       latitude            1e-4 degree  *)
(*   noise factor          1e-1           failure rate, U     1e-3         *)
(*   WQI sub-score         1e-4 point     WQI score           a fraction   *)
(* so that every product of the source is an exact integer.  math.sin is   *)
(* the rational approximation Sin1000.  Rounding of binary floating point  *)
(* is not modelled.                                                        *)
(***************************************************************************)
EXTENDS Integers, Sequences, FiniteSets, TLC

VARIABLES
    sim,        \* the HydraSimulator instances: their fields
    snaps,      \* the snapshots step() has returned, per instance, oldest first
    drawlog,    \* the generator calls of the latest step(), per instance, in order
    now,        \* the wall clock read by datetime.now()
    ph_in,      \* argument ph of compute_wqi / check_who_compliance
    turb_in,    \* argument turbidity
    metal_in,   \* argument heavy_metal
    wqi_out,    \* what compute_wqi returned (None before the call)
    who_out,    \* what check_who_compliance returned (None before the call)
    membrane_history, \* argument membrane_history of predict_maintenance
    threshold_in,     \* argument threshold of the latest predict_maintenance call
    maint_out,  \* what predict_maintenance returned (None before the call)
    desal_in,   \* argument desal_rate of compute_energy_efficiency
    irr_in,     \* argument irradiance of compute_energy_efficiency
    eff_out,    \* what compute_energy_efficiency returned, boxed (None before)
    lat_in,     \* argument lat of climate_from_latitude
    climate_out, \* what climate_from_latitude returned (None before the call)
    hist_a,     \* argument hist_a of compare_stations
    hist_b,     \* argument hist_b of compare_stations
    name_a,     \* argument name_a of compare_stations
    name_b,     \* argument name_b of compare_stations
    rows_out,   \* what compare_stations returned (None before the call)
    csv_hist,   \* argument hist of build_csv
    csv_out,    \* what build_csv returned (None before the call)
    session_state, \* st.session_state of the dashboard (None outside a session)
    markers_out, \* global_markers of the latest overview (None before it)
    state_in,   \* the snapshot given to analyze and detect_anomalies
    rag_in,     \* the GraphRAGEngine that analyzes it
    classify_out, \* what each call returned so far, oldest first
    helios_in,  \* argument helios of SystemSpec
    aegis_in,   \* argument aegis of SystemSpec
    sentinel_in, \* argument sentinel of SystemSpec
    system_out  \* the outcome of SystemSpec(...) (None before the call)

simVars == <<sim, snaps, drawlog, now>>
wqVars == <<ph_in, turb_in, metal_in, wqi_out, who_out>>
mtVars == <<membrane_history, threshold_in, maint_out>>
efVars == <<desal_in, irr_in, eff_out>>
clVars == <<lat_in, climate_out>>
cmpVars == <<hist_a, hist_b, name_a, name_b, rows_out>>
csvVars == <<csv_hist, csv_out>>
sessVars == <<session_state, markers_out>>
anVars == <<state_in, rag_in, classify_out>>
cadVars == <<helios_in, aegis_in, sentinel_in, system_out>>
extVars == <<efVars, clVars, cmpVars, csvVars, sessVars, anVars, cadVars>>
vars == <<sim, snaps, drawlog, now, ph_in, turb_in, metal_in, wqi_out, who_out,
          membrane_history, threshold_in, maint_out, desal_in, irr_in, eff_out,
          lat_in, climate_out, hist_a, hist_b, name_a, name_b, rows_out,
          csv_hist, csv_out, session_state, markers_out,
          state_in, rag_in, classify_out,
          helios_in, aegis_in, sentinel_in, system_out>>

-----------------------------------------------------------------------------
(* Bounds of the model *)

MaxTick == 2        \* step() calls per simulator instance
MaxClock == 1       \* wall-clock instants after the first
ZMax == 8           \* magnitude of a Gaussian draw, in standard deviations
MaxHist == 11       \* entries of a membrane history
MaxNone == 1        \* missing entries of a membrane history

-----------------------------------------------------------------------------
(* Optional[float]: None is the empty tuple, a present value v is <<v>> *)

None == <<>>
Some(v) == <<v>>
IsNone(x) == x = <<>>
Val(x) == x[1]

Max(a, b) == IF a >= b THEN a ELSE b
Min(a, b) == IF a <= b THEN a ELSE b
Abs(a) == IF a >= 0 THEN a ELSE -a

-----------------------------------------------------------------------------
(* core/models.py *)

\* _clamp that leaves the attribute as constructed
ClampOmitted(val, lo, hi) == val

\* _clamp: max(lo, min(hi, val))
Clamp(val, lo, hi) == Max(lo, Min(hi, val))

\* _clamp with hi = float("inf")
ClampLo(val, lo) == Max(lo, val)

\* HeliosState(...) followed by its __post_init__
HeliosState(irradiance, desal, ts) ==
    [solar_irradiance_wm2 |-> Clamp(irradiance, 0, 1400000),
     desalination_rate_lhr |-> ClampLo(desal, 0),
     timestamp |-> ts]

\* AegisState whose biofouling risk is limited to [0, 20]
AegisStateCappedAtThreshold(membrane, biofouling, qq, ts) ==
    [membrane_integrity_pct |-> Clamp(membrane, 0, 100000),
     biofouling_risk_pct |-> Clamp(biofouling, 0, 20000),
     quorum_quenching_active |-> qq,
     timestamp |-> ts]

\* AegisState(...) followed by its __post_init__
AegisState(membrane, biofouling, qq, ts) ==
    [membrane_integrity_pct |-> Clamp(membrane, 0, 100000),
     biofouling_risk_pct |-> Clamp(biofouling, 0, 100000),
     quorum_quenching_active |-> qq,
     timestamp |-> ts]

\* SentinelState(...) followed by its __post_init__
SentinelState(ph, turb, metal, ts) ==
    [ph_level |-> IF IsNone(ph) THEN None ELSE Some(Clamp(Val(ph), 0, 140000)),
     turbidity_ntu |-> IF IsNone(turb) THEN None ELSE Some(ClampLo(Val(turb), 0)),
     heavy_metal_ppm |-> IF IsNone(metal) THEN None ELSE Some(ClampLo(Val(metal), 0)),
     timestamp |-> ts]

\* HydraState(...)
HydraState(h, a, s, t) == [helios |-> h, aegis |-> a, sentinel |-> s, tick |-> t]

-----------------------------------------------------------------------------
(* engine/simulator.py: stations and climate *)

StationConfig(nm, sd, la, ib, mb) ==
    [name |-> nm, seed |-> sd, lat |-> la, irradiance_base |-> ib, membrane_base |-> mb]

\* (name, lat, irradiance_base, membrane_base), one per climate zone: the
\* registry's first station, a custom station at the pole as
\* build_custom_station derives it (cos 90 = 0: bases 400 and 90), two
\* stations whose bases sit at the edges of the physical ranges, and one in
\* the Cold zone.
StationParams ==
    { <<"Doi Inthanon", 185883, 700, 85>>,
      <<"Custom (90.00, 0.00)", 900000, 400, 90>>,
      <<"High", 300000, 1390, 99>>,
      <<"Low", -600000, 10, 1>>,
      <<"Cold", 600000, 600, 88>> }

ClimateProfile(z, nf, fr, cp) ==
    [zone |-> z, noise_factor |-> nf, fail_rate |-> fr, cycle_period |-> cp]

\* climate_from_latitude on the signed latitude: a = lat
climate_from_latitude_signed(lat) ==
    LET a == lat IN
    IF a < 235000 THEN ClimateProfile("Tropical", 10, 40, 120)
    ELSE IF a < 350000 THEN ClimateProfile("Arid", 13, 30, 130)
    ELSE IF a < 550000 THEN ClimateProfile("Temperate", 11, 20, 150)
    ELSE IF a < 665000 THEN ClimateProfile("Cold", 14, 20, 180)
    ELSE ClimateProfile("Polar", 16, 50, 240)

\* climate_from_latitude with the Cold and Polar parameters exchanged
climate_from_latitude_cold_polar_swapped(lat) ==
    LET a == Abs(lat) IN
    IF a < 235000 THEN ClimateProfile("Tropical", 10, 40, 120)
    ELSE IF a < 350000 THEN ClimateProfile("Arid", 13, 30, 130)
    ELSE IF a < 550000 THEN ClimateProfile("Temperate", 11, 20, 150)
    ELSE IF a < 665000 THEN ClimateProfile("Cold", 16, 50, 180)
    ELSE ClimateProfile("Polar", 14, 20, 240)
climate_from_latitude(lat) ==
    LET a == Abs(lat) IN
    IF a < 235000 THEN ClimateProfile("Tropical", 10, 40, 120)
    ELSE IF a < 350000 THEN ClimateProfile("Arid", 13, 30, 130)
    ELSE IF a < 550000 THEN ClimateProfile("Temperate", 11, 20, 150)
    ELSE IF a < 665000 THEN ClimateProfile("Cold", 14, 20, 180)
    ELSE ClimateProfile("Polar", 16, 50, 240)

-----------------------------------------------------------------------------
(* math.sin(2*pi*t/period), times 1000: Bhaskara's rational approximation *)
(* on each half period (every period of the source is even).  Exact at    *)
(* the zeros and the extrema, within 0.002 elsewhere.                     *)

SinHalf(p, h) == (16000 * p * (h - p)) \div (5 * h * h - 4 * p * (h - p))

Sin1000(t, period) ==
    LET h == period \div 2
        p == t % period
    IN IF p <= h THEN SinHalf(p, h) ELSE -SinHalf(p - h, h)

-----------------------------------------------------------------------------
(* random.Random(seed): a deterministic generator.  Its state is a         *)
(* register fixed by the seed and the number of values drawn so far; the   *)
(* value at a position is one bit of the register, and the bit used moves  *)
(* by one from each block of DrawOrder-many draws to the next.  Every      *)
(* combination of the ten draws of a step occurs for some seed.            *)

DrawOrder ==
    << "irradiance_noise", "desal_noise", "membrane_noise", "biofouling_noise",
       "ph_noise", "ph_offline", "turbidity_noise", "turbidity_offline",
       "metal_noise", "metal_offline" >>

RegBits == Len(DrawOrder)

RECURSIVE Pow2(_)
Pow2(n) == IF n = 0 THEN 1 ELSE 2 * Pow2(n - 1)

Seeds == 0 .. (Pow2(RegBits) - 1)

\* random.Random(seed)
Random(seed) == [reg |-> seed % Pow2(RegBits), idx |-> 0]

RngBit(r) ==
    LET k == (r.idx + (r.idx \div RegBits)) % RegBits
    IN (r.reg \div Pow2(k)) % 2

RngAdvance(r) == [reg |-> r.reg, idx |-> r.idx + 1]

\* Random.gauss(0.0, sigma): the value drawn (sigma in the unit of the result)
GaussValue(r, sigma) == IF RngBit(r) = 1 THEN ZMax * sigma ELSE -(ZMax * sigma)

\* Random.random(): the value drawn, in 1e-3
RandomValue(r) == IF RngBit(r) = 1 THEN 0 ELSE 999


-----------------------------------------------------------------------------
(* engine/simulator.py: HydraSimulator *)

\* HydraSimulator.__init__: the fields of a fresh instance
HydraSimulator(config) ==
    [_config |-> config,
     _rng |-> Random(config.seed),
     _tick |-> 0,
     _irr_base |-> config.irradiance_base,
     _mem_base |-> config.membrane_base,
     _climate |-> climate_from_latitude(config.lat)]

\* One call on the generator: the call is logged with the position it reads
Draw(d, kind) ==
    [rng |-> RngAdvance(d.rng),
     log |-> Append(d.log, [kind |-> kind, idx |-> d.rng.idx])]

_helios(self, t, ts, d0) ==
    LET cp == self._climate
        irr0 == self._irr_base * 1000 + 500 * Sin1000(t, cp.cycle_period)
        irr1 == irr0 + GaussValue(d0.rng, 2000 * cp.noise_factor)
        d1 == Draw(d0, "irradiance_noise")
        irradiance == Max(0, irr1)
        desal == irradiance * 8 + GaussValue(d1.rng, 100000)
        d2 == Draw(d1, "desal_noise")
    IN [state |-> HeliosState(irradiance, Max(0, desal), ts), d |-> d2]

_aegis(self, t, ts, d0) ==
    LET cp == self._climate
        mem0 == self._mem_base * 1000 + 10 * Sin1000(t, 300)
        membrane == mem0 + GaussValue(d0.rng, 100 * cp.noise_factor)
        d1 == Draw(d0, "membrane_noise")
        biofouling == 100000 - membrane + GaussValue(d1.rng, 200 * cp.noise_factor)
        d2 == Draw(d1, "biofouling_noise")
    IN [state |-> AegisState(membrane, biofouling, biofouling > 20000, ts), d |-> d2]

\* _sentinel that decides the pH dropout first and draws the pH noise only for
\* a reading that is kept
_sentinel_noise_if_online(self, t, ts, d0) ==
    LET cp == self._climate
        fail == cp.fail_rate
        nf == cp.noise_factor
        off == RandomValue(d0.rng) < fail
        d1 == Draw(d0, "ph_offline")
        ph0 == 70000 + 5 * Sin1000(t, 80) + GaussValue(d1.rng, 100 * nf)
        d2 == IF off THEN d1 ELSE Draw(d1, "ph_noise")
        ph == IF off THEN None ELSE Some(ph0)
        turb0 == 20000 + 15 * Sin1000(t, 150) + GaussValue(d2.rng, 300 * nf)
        d3 == Draw(d2, "turbidity_noise")
        turb == IF RandomValue(d3.rng) < fail THEN None ELSE Some(Max(0, turb0))
        d4 == Draw(d3, "turbidity_offline")
        metal0 == 50000 + 30 * Sin1000(t, 200) + GaussValue(d4.rng, 1000 * nf)
        d5 == Draw(d4, "metal_noise")
        metal == IF RandomValue(d5.rng) < fail THEN None ELSE Some(Max(0, metal0))
        d6 == Draw(d5, "metal_offline")
    IN [state |-> SentinelState(ph, turb, metal, ts), d |-> d6]

\* _sentinel in which the pH channel's dropout takes the other two channels
\* with it
_sentinel_one_dropout(self, t, ts, d0) ==
    LET cp == self._climate
        fail == cp.fail_rate
        nf == cp.noise_factor
        ph0 == 70000 + 5 * Sin1000(t, 80) + GaussValue(d0.rng, 100 * nf)
        d1 == Draw(d0, "ph_noise")
        off == RandomValue(d1.rng) < fail
        ph == IF off THEN None ELSE Some(ph0)
        d2 == Draw(d1, "ph_offline")
        turb0 == 20000 + 15 * Sin1000(t, 150) + GaussValue(d2.rng, 300 * nf)
        d3 == Draw(d2, "turbidity_noise")
        turb == IF off THEN None ELSE Some(Max(0, turb0))
        d4 == Draw(d3, "turbidity_offline")
        metal0 == 50000 + 30 * Sin1000(t, 200) + GaussValue(d4.rng, 1000 * nf)
        d5 == Draw(d4, "metal_noise")
        metal == IF off THEN None ELSE Some(Max(0, metal0))
        d6 == Draw(d5, "metal_offline")
    IN [state |-> SentinelState(ph, turb, metal, ts), d |-> d6]

_sentinel(self, t, ts, d0) ==
    LET cp == self._climate
        fail == cp.fail_rate
        nf == cp.noise_factor
        ph0 == 70000 + 5 * Sin1000(t, 80) + GaussValue(d0.rng, 100 * nf)
        d1 == Draw(d0, "ph_noise")
        ph == IF RandomValue(d1.rng) < fail THEN None ELSE Some(ph0)
        d2 == Draw(d1, "ph_offline")
        turb0 == 20000 + 15 * Sin1000(t, 150) + GaussValue(d2.rng, 300 * nf)
        d3 == Draw(d2, "turbidity_noise")
        turb == IF RandomValue(d3.rng) < fail THEN None ELSE Some(Max(0, turb0))
        d4 == Draw(d3, "turbidity_offline")
        metal0 == 50000 + 30 * Sin1000(t, 200) + GaussValue(d4.rng, 1000 * nf)
        d5 == Draw(d4, "metal_noise")
        metal == IF RandomValue(d5.rng) < fail THEN None ELSE Some(Max(0, metal0))
        d6 == Draw(d5, "metal_offline")
    IN [state |-> SentinelState(ph, turb, metal, ts), d |-> d6]

\* step that builds the snapshot from the counter before incrementing it
step_increment_after(self, ts) ==
    LET t == self._tick
        h == _helios(self, t, ts, [rng |-> self._rng, log |-> <<>>])
        a == _aegis(self, t, ts, h.d)
        s == _sentinel(self, t, ts, a.d)
    IN [self |-> [self EXCEPT !._tick = t + 1, !._rng = s.d.rng],
        log |-> s.d.log,
        state |-> HydraState(h.state, a.state, s.state, t)]

\* HydraSimulator.step: the instance after the call, the calls it made on the
\* generator, and the snapshot returned.  ts is what datetime.now() returns.
step(self, ts) ==
    LET t == self._tick + 1
        h == _helios(self, t, ts, [rng |-> self._rng, log |-> <<>>])
        a == _aegis(self, t, ts, h.d)
        s == _sentinel(self, t, ts, a.d)
    IN [self |-> [self EXCEPT !._tick = t, !._rng = s.d.rng],
        log |-> s.d.log,
        state |-> HydraState(h.state, a.state, s.state, t)]

-----------------------------------------------------------------------------
(* Exact fractions num/den with den > 0, for the quotients of analytics.py *)

Frac(n, d) == [num |-> n, den |-> d]
FracEq(a, b) == a.num * b.den = b.num * a.den
FracLeq(a, b) == a.num * b.den <= b.num * a.den
FracLt(a, b) == a.num * b.den < b.num * a.den

\* int(a / b) of Python for b # 0: the quotient truncated toward zero
TruncDiv(a, b) ==
    LET q == Abs(a) \div Abs(b)
    IN IF (a >= 0) = (b > 0) THEN q ELSE -q

RECURSIVE SumSeq(_)
SumSeq(s) == IF s = <<>> THEN 0 ELSE Head(s) + SumSeq(Tail(s))

-----------------------------------------------------------------------------
(* engine/analytics.py: compute_wqi.  Weights are in units of 0.05. *)

_WQI_GRADES ==
    << <<90, "A", "#39ff14">>,
       <<70, "B", "#00f0ff">>,
       <<50, "C", "#ffd700">>,
       <<30, "D", "#ff8c00">>,
       <<0, "F", "#ff073a">> >>

\* sub-score of a present pH reading
SubPh(ph) ==
    LET deviation == Max(0, Abs(ph - 75000) - 10000)
    IN Max(0, 1000000 - deviation * 15)

\* sub-score of a present turbidity reading
SubTurbidity(turbidity) == Max(0, 1000000 - turbidity * 10)

\* sub-score of a present heavy-metal reading (2000 points per PPM)
SubHeavyMetal(heavy_metal) == Max(0, 1000000 - heavy_metal * 2)

\* the list `components` of (sub_score, weight), in the order it is built
WqiComponents(ph, turbidity, heavy_metal) ==
    (IF IsNone(ph) THEN <<>> ELSE << <<SubPh(Val(ph)), 7>> >>)
    \o (IF IsNone(turbidity) THEN <<>> ELSE << <<SubTurbidity(Val(turbidity)), 7>> >>)
    \o (IF IsNone(heavy_metal) THEN <<>> ELSE << <<SubHeavyMetal(Val(heavy_metal)), 6>> >>)

\* the score divided by the sum of all three weights, whichever are present
WqiScoreFixedWeights(components) ==
    LET weighted == SumSeq([i \in 1 .. Len(components) |->
                               components[i][1] * components[i][2]])
    IN Frac(Max(0, Min(1000000 * 20, weighted)), 20)

\* score = max(0.0, min(100.0, sum(s * w) / total_weight))
WqiScore(components) ==
    LET total_weight == SumSeq([i \in 1 .. Len(components) |-> components[i][2]])
        weighted == SumSeq([i \in 1 .. Len(components) |->
                               components[i][1] * components[i][2]])
    IN Frac(Max(0, Min(1000000 * total_weight, weighted)), total_weight)

\* the loop with `score > threshold`
RECURSIVE WqiGradeStrict(_, _)
WqiGradeStrict(score, k) ==
    IF k > Len(_WQI_GRADES) THEN <<"F", "#ff073a">>
    ELSE IF FracLt(Frac(_WQI_GRADES[k][1] * 10000, 1), score)
         THEN <<_WQI_GRADES[k][2], _WQI_GRADES[k][3]>>
         ELSE WqiGradeStrict(score, k + 1)

\* the loop over _WQI_GRADES: the first entry whose threshold the score reaches
RECURSIVE WqiGrade(_, _)
WqiGrade(score, k) ==
    IF k > Len(_WQI_GRADES) THEN <<"F", "#ff073a">>
    ELSE IF FracLeq(Frac(_WQI_GRADES[k][1] * 10000, 1), score)
         THEN <<_WQI_GRADES[k][2], _WQI_GRADES[k][3]>>
         ELSE WqiGrade(score, k + 1)

\* compute_wqi that also answers "N/A" for a score of 0
compute_wqi_na_on_zero(ph, turbidity, heavy_metal) ==
    LET components == WqiComponents(ph, turbidity, heavy_metal)
        score == WqiScore(components)
        g == WqiGrade(score, 1)
    IN IF components = <<>> \/ score.num = 0
       THEN [score |-> Frac(0, 1), grade |-> "N/A", color |-> "#505068"]
       ELSE [score |-> score, grade |-> g[1], color |-> g[2]]

compute_wqi(ph, turbidity, heavy_metal) ==
    LET components == WqiComponents(ph, turbidity, heavy_metal)
        score == WqiScore(components)
        g == WqiGrade(score, 1)
    IN IF components = <<>>
       THEN [score |-> Frac(0, 1), grade |-> "N/A", color |-> "#505068"]
       ELSE [score |-> score, grade |-> g[1], color |-> g[2]]

-----------------------------------------------------------------------------
(* engine/analytics.py: check_who_compliance *)

\* round(v / unit) with ties to even: the value a fixed-precision format shows
RoundTo(v, unit) ==
    LET q == v \div unit
        r == v % unit
    IN IF 2 * r > unit \/ (2 * r = unit /\ q % 2 = 1) THEN q + 1 ELSE q

\* the list `checks`: (parameter, value shown, result); a value is shown to
\* 1e-2 (pH, turbidity) or 1e-4 (heavy metal), "N/A" when offline
WhoChecks(ph, turbidity, heavy_metal) ==
    << IF IsNone(ph) THEN <<"pH", "N/A", "OFFLINE">>
       ELSE <<"pH", Some(RoundTo(Val(ph), 100)),
              IF 65000 <= Val(ph) /\ Val(ph) <= 85000 THEN "PASS" ELSE "FAIL">>,
       IF IsNone(turbidity) THEN <<"Turbidity", "N/A", "OFFLINE">>
       ELSE <<"Turbidity", Some(RoundTo(Val(turbidity), 100)),
              IF Val(turbidity) < 10000 THEN "PASS" ELSE "FAIL">>,
       IF IsNone(heavy_metal) THEN <<"Heavy Metal", "N/A", "OFFLINE">>
       ELSE <<"Heavy Metal", Some(RoundTo(Val(heavy_metal), 1000)),
              IF Val(heavy_metal) < 100000 THEN "PASS" ELSE "FAIL">> >>

\* the status with the offline test before the failure test
WhoStatusOfflineFirst(results) ==
    IF \A i \in 1 .. Len(results) : results[i] = "PASS" THEN "PASS"
    ELSE IF \E i \in 1 .. Len(results) : results[i] = "OFFLINE" THEN "PARTIAL"
    ELSE "FAIL"

\* the status with offline channels left out of the all-pass test
WhoStatusPresentOnly(results) ==
    IF \A i \in 1 .. Len(results) : results[i] \in {"PASS", "OFFLINE"} THEN "PASS"
    ELSE IF \E i \in 1 .. Len(results) : results[i] = "FAIL" THEN "FAIL"
    ELSE "PARTIAL"

\* the aggregate status from the list `results`
WhoStatus(results) ==
    IF \A i \in 1 .. Len(results) : results[i] = "PASS" THEN "PASS"
    ELSE IF \E i \in 1 .. Len(results) : results[i] = "FAIL" THEN "FAIL"
    ELSE "PARTIAL"

check_who_compliance(ph, turbidity, heavy_metal) ==
    LET checks == WhoChecks(ph, turbidity, heavy_metal)
        results == [i \in 1 .. Len(checks) |-> checks[i][3]]
    IN [status |-> WhoStatus(results), checks |-> checks]

-----------------------------------------------------------------------------
(* engine/analytics.py: predict_maintenance.  The history and the threshold *)
(* are in one unit; slope and intercept are exact fractions.                *)

\* data that keeps a missing sample as 0: [v or 0 for v in membrane_history]
RECURSIVE PresentZeroFilled(_)
PresentZeroFilled(h) ==
    IF h = <<>> THEN <<>>
    ELSE <<(IF IsNone(Head(h)) THEN 0 ELSE Val(Head(h)))>>
            \o PresentZeroFilled(Tail(h))
\* data = [v for v in membrane_history if v is not None]
RECURSIVE Present(_)
Present(h) ==
    IF h = <<>> THEN <<>>
    ELSE IF IsNone(Head(h)) THEN Present(Tail(h))
    ELSE <<Val(Head(h))>> \o Present(Tail(h))

\* the sums with sum(i^2) replaced by (sum(i))^2 / n, the square of the mean
\* index taken n times
OlsSumsSquaredMean(data) ==
    LET n == Len(data)
        sx == SumSeq([i \in 1 .. n |-> i - 1])
        sy == SumSeq(data)
        sx2 == IF n = 0 THEN 0 ELSE (sx * sx) \div n
        sxy == SumSeq([i \in 1 .. n |-> (i - 1) * data[i]])
    IN [n |-> n, sx |-> sx, sy |-> sy, sx2 |-> sx2, sxy |-> sxy,
        denom |-> n * sx2 - sx * sx,
        snum |-> n * sxy - sx * sy]
\* the sums of the regression over indices 0 .. n-1
OlsSums(data) ==
    LET n == Len(data)
        sx == SumSeq([i \in 1 .. n |-> i - 1])
        sy == SumSeq(data)
        sx2 == SumSeq([i \in 1 .. n |-> (i - 1) * (i - 1)])
        sxy == SumSeq([i \in 1 .. n |-> (i - 1) * data[i]])
    IN [n |-> n, sx |-> sx, sy |-> sy, sx2 |-> sx2, sxy |-> sxy,
        denom |-> n * sx2 - sx * sx,
        snum |-> n * sxy - sx * sy]

\* predict_maintenance that projects the distance to the threshold on either
\* side of it: abs(int((threshold - current_y) / slope)), no "due now" return
predict_maintenance_distance(history, threshold) ==
    LET data == Present(history)
        o == OlsSums(data)
        n == o.n
        slope == Frac(o.snum, o.denom)
        intercept == Frac(o.sy * o.denom - o.snum * o.sx, n * o.denom)
        current_y == Frac(o.snum * (n - 1) * n + intercept.num, n * o.denom)
        ticks_to_threshold ==
            TruncDiv(threshold * current_y.den - current_y.num, n * o.snum)
    IN IF n < 10 THEN [ticks |-> None, slope |-> Frac(0, 1), intercept |-> Frac(0, 1)]
       ELSE IF o.denom = 0
            THEN [ticks |-> None, slope |-> Frac(0, 1),
                  intercept |-> Frac(data[Len(data)], 1)]
       ELSE IF FracLeq(Frac(0, 1), slope)
            THEN [ticks |-> None, slope |-> slope, intercept |-> intercept]
       ELSE [ticks |-> Some(Abs(ticks_to_threshold)),
             slope |-> slope, intercept |-> intercept]

\* predict_maintenance that reports the first step past the crossing:
\* int((threshold - current_y) / slope) + 1
predict_maintenance_next_step(history, threshold) ==
    LET data == Present(history)
        o == OlsSums(data)
        n == o.n
        slope == Frac(o.snum, o.denom)
        intercept == Frac(o.sy * o.denom - o.snum * o.sx, n * o.denom)
        current_y == Frac(o.snum * (n - 1) * n + intercept.num, n * o.denom)
        ticks_to_threshold ==
            TruncDiv(threshold * current_y.den - current_y.num, n * o.snum) + 1
    IN IF n < 10 THEN [ticks |-> None, slope |-> Frac(0, 1), intercept |-> Frac(0, 1)]
       ELSE IF o.denom = 0
            THEN [ticks |-> None, slope |-> Frac(0, 1),
                  intercept |-> Frac(data[Len(data)], 1)]
       ELSE IF FracLeq(Frac(0, 1), slope)
            THEN [ticks |-> None, slope |-> slope, intercept |-> intercept]
       ELSE IF FracLeq(current_y, Frac(threshold, 1))
            THEN [ticks |-> Some(0), slope |-> slope, intercept |-> intercept]
       ELSE [ticks |-> Some(Max(0, ticks_to_threshold)),
             slope |-> slope, intercept |-> intercept]
predict_maintenance(history, threshold) ==
    LET data == Present(history)
        o == OlsSums(data)
        n == o.n
        slope == Frac(o.snum, o.denom)
        intercept == Frac(o.sy * o.denom - o.snum * o.sx, n * o.denom)
        \* current_y = slope * (n - 1) + intercept, over the denominator n * denom
        current_y == Frac(o.snum * (n - 1) * n + intercept.num, n * o.denom)
        \* int((threshold - current_y) / slope)
        ticks_to_threshold ==
            TruncDiv(threshold * current_y.den - current_y.num, n * o.snum)
    IN IF n < 10 THEN [ticks |-> None, slope |-> Frac(0, 1), intercept |-> Frac(0, 1)]
       ELSE IF o.denom = 0
            THEN [ticks |-> None, slope |-> Frac(0, 1),
                  intercept |-> Frac(data[Len(data)], 1)]
       ELSE IF FracLeq(Frac(0, 1), slope)
            THEN [ticks |-> None, slope |-> slope, intercept |-> intercept]
       ELSE IF FracLeq(current_y, Frac(threshold, 1))
            THEN [ticks |-> Some(0), slope |-> slope, intercept |-> intercept]
       ELSE [ticks |-> Some(Max(0, ticks_to_threshold)),
             slope |-> slope, intercept |-> intercept]

-----------------------------------------------------------------------------
(* Binary floating point.  A float is mantissa * 2^exponent with at most    *)
(* MantissaBits significant bits; every operation rounds its exact result   *)
(* to the nearest float, ties to even.  Python's float has 53 bits; the     *)
(* format here is the same arithmetic at a width TLC can enumerate.         *)

MantissaBits == 8

RECURSIVE BitLen(_)
BitLen(n) == IF n = 0 THEN 0 ELSE 1 + BitLen(n \div 2)

Float(m, e) == [m |-> m, e |-> e]

Sgn(m) == IF m < 0 THEN -1 ELSE IF m > 0 THEN 1 ELSE 0

\* the one representation of a value: an odd mantissa, or 0
RECURSIVE FlNorm(_, _)
FlNorm(m, e) ==
    IF m = 0 THEN Float(0, 0)
    ELSE IF m % 2 = 0 THEN FlNorm(m \div 2, e + 1)
    ELSE Float(m, e)

\* round the exact value m * 2^e to MantissaBits bits, ties to even
FlRound(m, e) ==
    LET a == Abs(m)
        s == BitLen(a) - MantissaBits
    IN IF s <= 0 THEN FlNorm(m, e)
       ELSE LET q == a \div Pow2(s)
                r == a % Pow2(s)
                half == Pow2(s - 1)
                up == r > half \/ (r = half /\ q % 2 = 1)
            IN FlNorm(Sgn(m) * (IF up THEN q + 1 ELSE q), e + s)

\* float(i) for an integer the format holds exactly
FlInt(i) == FlNorm(i, 0)

FlNeg(a) == Float(-a.m, a.e)

FlMul(a, b) == FlRound(a.m * b.m, a.e + b.e)

\* position of the leading bit
FlTop(a) == a.e + BitLen(Abs(a.m))

FlAdd(a, b) ==
    IF a.m = 0 THEN b
    ELSE IF b.m = 0 THEN a
    ELSE IF FlTop(a) - FlTop(b) > MantissaBits + 2 THEN a
    ELSE IF FlTop(b) - FlTop(a) > MantissaBits + 2 THEN b
    ELSE LET e0 == Min(a.e, b.e)
         IN FlRound(a.m * Pow2(a.e - e0) + b.m * Pow2(b.e - e0), e0)

FlSub(a, b) == FlAdd(a, FlNeg(b))

\* a / b for b # 0: MantissaBits + 2 quotient bits and a sticky bit, rounded
FlDiv(a, b) ==
    IF a.m = 0 THEN Float(0, 0)
    ELSE LET k == MantissaBits + 2 + BitLen(Abs(b.m)) - BitLen(Abs(a.m))
             num == Abs(a.m) * Pow2(k)
             q == num \div Abs(b.m)
             sticky == IF num % Abs(b.m) = 0 THEN 0 ELSE 1
         IN FlRound(Sgn(a.m) * Sgn(b.m) * (2 * q + sticky), a.e - b.e - k - 1)

FlLt(a, b) == FlSub(a, b).m < 0
FlLeq(a, b) == FlSub(a, b).m <= 0

\* int(a): the integer part, toward zero, as an integer-valued float
FlTrunc(a) ==
    IF a.e >= 0 THEN a
    ELSE IF -a.e >= BitLen(Abs(a.m)) THEN Float(0, 0)
    ELSE FlNorm(Sgn(a.m) * (Abs(a.m) \div Pow2(-a.e)), 0)

\* sum(xs): left to right from 0, one rounding per addition
RECURSIVE FlSum(_)
FlSum(xs) ==
    IF xs = <<>> THEN Float(0, 0)
    ELSE FlAdd(FlSum(SubSeq(xs, 1, Len(xs) - 1)), xs[Len(xs)])

\* predict_maintenance as the floats compute it: the history holds floats,
\* the index sums are integers, and each float operation rounds
predict_maintenance_float(history, threshold) ==
    LET data == Present(history)
        n == Len(data)
        sx == SumSeq([i \in 1 .. n |-> i - 1])
        sy == FlSum(data)
        sx2 == SumSeq([i \in 1 .. n |-> (i - 1) * (i - 1)])
        sxy == FlSum([i \in 1 .. n |-> FlMul(FlInt(i - 1), data[i])])
        denom == n * sx2 - sx * sx
        slope == FlDiv(FlSub(FlMul(FlInt(n), sxy), FlMul(FlInt(sx), sy)),
                       Float(denom, 0))
        intercept == FlDiv(FlSub(sy, FlMul(slope, FlInt(sx))), FlInt(n))
        current_y == FlAdd(FlMul(slope, FlInt(n - 1)), intercept)
        ticks_to_threshold == FlTrunc(FlDiv(FlSub(threshold, current_y), slope))
    IN IF n < 10
       THEN [ticks |-> None, slope |-> Float(0, 0), intercept |-> Float(0, 0)]
       ELSE IF denom = 0
            THEN [ticks |-> None, slope |-> Float(0, 0),
                  intercept |-> data[Len(data)]]
       ELSE IF slope.m >= 0
            THEN [ticks |-> None, slope |-> slope, intercept |-> intercept]
       ELSE IF FlLeq(current_y, threshold)
            THEN [ticks |-> Some(Float(0, 0)), slope |-> slope,
                  intercept |-> intercept]
       ELSE [ticks |-> Some(IF ticks_to_threshold.m < 0 THEN Float(0, 0)
                            ELSE ticks_to_threshold),
             slope |-> slope, intercept |-> intercept]

-----------------------------------------------------------------------------
(* engine/analytics.py: compute_energy_efficiency.  desal_rate is in 1e-6   *)
(* L/hr and irradiance in 1e-3 W/m2, so kw = irradiance / 1000.0 is         *)
(* irradiance * 1e-6 kW and desal_rate / kw is the fraction                 *)
(* desal_rate / irradiance L/kWh.                                           *)

\* compute_energy_efficiency that only guards the division: None for kw <= 0
compute_energy_efficiency_unless_zero(desal_rate, irradiance) ==
    IF irradiance > 0 THEN Some(Frac(desal_rate, irradiance)) ELSE None

compute_energy_efficiency(desal_rate, irradiance) ==
    IF irradiance < 10000 THEN None
    ELSE LET kw == irradiance
         IN IF kw > 0 THEN Some(Frac(desal_rate, kw)) ELSE None

-----------------------------------------------------------------------------
(* engine/analytics.py: compare_stations.  A history maps a key to the      *)
(* sequence of its samples (a deque, oldest first), each a number or None.  *)
(* A formatted number is Some(the number in hundredths); the strings "N/A"  *)
(* and, for the delta, the dash are None.                                   *)

\* the string of one em dash
Dash == "--"

\* dict d with d[k] = v
DictSet(d, k, v) == [x \in (DOMAIN d) \cup {k} |-> IF x = k THEN v ELSE d[x]]

\* hist.get(key, deque())
HistGet(hist, key) == IF key \in DOMAIN hist THEN hist[key] ELSE <<>>

\* _avg(seq): a fraction, or None
_avg(seq) ==
    LET vals == Present(seq)
    IN IF vals # <<>> THEN Some(Frac(SumSeq(vals), Len(vals))) ELSE None

\* the metrics with turbidity taken as higher-is-better
MetricsTurbidityHigher ==
    << <<"Avg Irradiance", "irradiance", "W/m2", Some(TRUE), 10>>,
       <<"Avg Membrane", "membrane", "%", Some(TRUE), 10>>,
       <<"Avg pH", "ph", "", None, 100>>,
       <<"Avg Turbidity", "turbidity", "NTU", Some(TRUE), 100>>,
       <<"Avg Heavy Metal", "heavy_metal", "PPM", Some(FALSE), 100000>>,
       <<"Avg WQI", "wqi", "", Some(TRUE), 100>> >>

\* the list `metrics`: label, key, unit, higher_better, and the number of
\* units of the key's values in 0.01 of its display unit
Metrics ==
    << <<"Avg Irradiance", "irradiance", "W/m2", Some(TRUE), 10>>,
       <<"Avg Membrane", "membrane", "%", Some(TRUE), 10>>,
       <<"Avg pH", "ph", "", None, 100>>,
       <<"Avg Turbidity", "turbidity", "NTU", Some(FALSE), 100>>,
       <<"Avg Heavy Metal", "heavy_metal", "PPM", Some(FALSE), 100000>>,
       <<"Avg WQI", "wqi", "", Some(TRUE), 100>> >>

\* f"{v:.2f}" of a fraction: the nearest hundredth, ties to even
Format2f(f, cents) == RoundTo(f.num, f.den * cents)

\* one row of compare_stations
CompareRow(metric, hist_a_, hist_b_, name_a_, name_b_) ==
    LET label == metric[1]
        key == metric[2]
        unit == metric[3]
        higher_better == metric[4]
        a_val == _avg(HistGet(hist_a_, key))
        b_val == _avg(HistGet(hist_b_, key))
        a_str == IF a_val # None THEN Some(Format2f(Val(a_val), metric[5])) ELSE None
        b_str == IF b_val # None THEN Some(Format2f(Val(b_val), metric[5])) ELSE None
        delta == Frac(Val(a_val).num * Val(b_val).den - Val(b_val).num * Val(a_val).den,
                      Val(a_val).den * Val(b_val).den)
        delta_str ==
            IF a_val # None /\ b_val # None
            THEN Some([sign |-> IF delta.num < 0 THEN "-" ELSE "+",
                       hundredths |-> Format2f(Frac(Abs(delta.num), delta.den), metric[5]),
                       unit |-> unit])
            ELSE None
        winner ==
            IF a_val # None /\ b_val # None
            THEN IF higher_better = Some(TRUE)
                 THEN (IF delta.num > 0 THEN name_a_ ELSE name_b_)
                 ELSE IF higher_better = Some(FALSE)
                 THEN (IF delta.num < 0 THEN name_a_ ELSE name_b_)
                 ELSE Dash
            ELSE Dash
    IN DictSet(DictSet(DictSet(DictSet([k \in {"metric"} |-> label],
                                       name_a_, a_str),
                               name_b_, b_str),
                       "delta", delta_str),
               "winner", winner)

compare_stations(hist_a_, hist_b_, name_a_, name_b_) ==
    [i \in 1 .. Len(Metrics) |-> CompareRow(Metrics[i], hist_a_, hist_b_, name_a_, name_b_)]

-----------------------------------------------------------------------------
(* engine/analytics.py: build_csv.  A dict is a function on its keys; its   *)
(* keys come in the order of _KEYS, the order in which the dashboard        *)
(* inserts them.  The text returned is a sequence of characters, where a    *)
(* key and the word tick count as one character each.  A number is written  *)
(* as its decimal numeral in the unit of its key, a fraction (the keys wqi  *)
(* and efficiency) as numerator, "/", denominator.                          *)

\* src/app.py: _KEYS
_KEYS ==
    << "irradiance", "desal", "membrane", "biofouling", "ph", "turbidity",
       "heavy_metal", "wqi", "efficiency" >>

FractionKeys == {"wqi", "efficiency"}

\* list(hist.keys())
Keys(hist) == SelectSeq(_KEYS, LAMBDA k : k \in DOMAIN hist)

DigitChars == <<"0", "1", "2", "3", "4", "5", "6", "7", "8", "9">>

RECURSIVE Digits(_)
Digits(n) ==
    IF n < 10 THEN <<DigitChars[n + 1]>>
    ELSE Digits(n \div 10) \o <<DigitChars[(n % 10) + 1]>>

\* str(v) of a number
Numeral(v) == IF v < 0 THEN <<"-">> \o Digits(-v) ELSE Digits(v)

\* the field csv.writer writes for the value v of key k; None is written as
\* the empty field
CsvField(k, v) ==
    IF IsNone(v) THEN <<>>
    ELSE IF k \in FractionKeys
    THEN Numeral(Val(v).num) \o <<"/">> \o Numeral(Val(v).den)
    ELSE Numeral(Val(v))

\* writer.writerow(fields): the fields joined by "," and ended by "\r\n"
RECURSIVE CsvJoin(_)
CsvJoin(fields) ==
    IF Len(fields) = 1 THEN fields[1]
    ELSE fields[1] \o <<",">> \o CsvJoin(Tail(fields))

WriteRow(fields) == CsvJoin(fields) \o <<"\r", "\n">>

\* max((len(d) for d in hist.values()), default=0)
RECURSIVE MaxLen(_, _)
MaxLen(hist, keys) ==
    IF keys = <<>> THEN 0
    ELSE Max(Len(hist[Head(keys)]), MaxLen(hist, Tail(keys)))

\* min((len(d) for d in hist.values()), default=0)
RECURSIVE MinLen(_, _)
MinLen(hist, keys) ==
    IF keys = <<>> THEN 0
    ELSE IF Len(keys) = 1 THEN Len(hist[Head(keys)])
    ELSE Min(Len(hist[Head(keys)]), MinLen(hist, Tail(keys)))

\* the data rows i .. last
RECURSIVE CsvRows(_, _, _, _)
CsvRows(hist, keys, i, last) ==
    IF i > last THEN <<>>
    ELSE WriteRow(<<Numeral(i)>> \o
                  [j \in 1 .. Len(keys) |->
                      IF i <= Len(hist[keys[j]])
                      THEN CsvField(keys[j], hist[keys[j]][i])
                      ELSE <<>>])
         \o CsvRows(hist, keys, i + 1, last)

\* build_csv that stops at the end of the shortest history
build_csv_shortest(hist) ==
    LET keys == Keys(hist)
    IN WriteRow(<< <<"tick">> >> \o [j \in 1 .. Len(keys) |-> <<keys[j]>>])
       \o CsvRows(hist, keys, 1, MinLen(hist, keys))

build_csv(hist) ==
    LET keys == Keys(hist)
        max_len == MaxLen(hist, keys)
    IN WriteRow(<< <<"tick">> >> \o [j \in 1 .. Len(keys) |-> <<keys[j]>>])
       \o CsvRows(hist, keys, 1, max_len)

-----------------------------------------------------------------------------
(* The simulator *)

\* the registry STATIONS
STATIONS ==
    { StationConfig("Doi Inthanon", 42, 185883, 700, 85),
      StationConfig("Chiang Rai", 137, 199105, 750, 82),
      StationConfig("Nan", 256, 187756, 680, 88) }

wqIdle ==
    /\ ph_in = None /\ turb_in = None /\ metal_in = None
    /\ wqi_out = None /\ who_out = None

mtIdle == membrane_history = <<>> /\ threshold_in = 0 /\ maint_out = None

simIdle ==
    /\ sim = <<>> /\ snaps = <<>> /\ drawlog = <<>> /\ now = 0

efIdle == desal_in = None /\ irr_in = None /\ eff_out = None

clIdle == lat_in = None /\ climate_out = None

cmpIdle ==
    /\ hist_a = None /\ hist_b = None /\ name_a = None /\ name_b = None
    /\ rows_out = None

csvIdle == csv_hist = None /\ csv_out = None

sessIdle == session_state = None /\ markers_out = None

anIdle == state_in = None /\ rag_in = None /\ classify_out = <<>>

cadIdle ==
    /\ helios_in = None /\ aegis_in = None /\ sentinel_in = None
    /\ system_out = None

extIdle == efIdle /\ clIdle /\ cmpIdle /\ csvIdle /\ sessIdle /\ anIdle /\ cadIdle

\* sim.step() on instance i when all instances draw from the generator of
\* the first one
StepSharedGenerator(i) ==
    /\ sim[i]._tick < MaxTick
    /\ LET r == step([sim[i] EXCEPT !._rng = sim[1]._rng], now)
       IN /\ sim' = [j \in DOMAIN sim |->
                       IF j = i THEN r.self
                       ELSE [sim[j] EXCEPT !._rng = r.self._rng]]
          /\ snaps' = [snaps EXCEPT ![i] = Append(@, r.state)]
          /\ drawlog' = [drawlog EXCEPT ![i] = r.log]
    /\ UNCHANGED <<now, wqVars, mtVars, extVars>>

\* sim.step() on instance i; the caller keeps the snapshot
Step(i) ==
    /\ sim[i]._tick < MaxTick
    /\ LET r == step(sim[i], now)
       IN /\ sim' = [sim EXCEPT ![i] = r.self]
          /\ snaps' = [snaps EXCEPT ![i] = Append(@, r.state)]
          /\ drawlog' = [drawlog EXCEPT ![i] = r.log]
    /\ UNCHANGED <<now, wqVars, mtVars, extVars>>

\* time passes
Tock ==
    /\ now < MaxClock
    /\ now' = now + 1
    /\ UNCHANGED <<sim, snaps, drawlog, wqVars, mtVars, extVars>>

\* One instance, built for any station parameters and any seed
InitSim ==
    /\ \E sp \in StationParams, sd \in Seeds :
          sim = <<HydraSimulator(StationConfig(sp[1], sd, sp[2], sp[3], sp[4]))>>
    /\ snaps = << <<>> >>
    /\ drawlog = << <<>> >>
    /\ now = 0
    /\ wqIdle /\ mtIdle /\ extIdle

NextSim == Step(1) \/ Tock

Spec == InitSim /\ [][NextSim]_vars

\* Two instances, each built for a station of the registry, stepped in any
\* interleaving
InitPair ==
    /\ \E c1 \in STATIONS, c2 \in STATIONS :
          sim = <<HydraSimulator(c1), HydraSimulator(c2)>>
    /\ snaps = << <<>>, <<>> >>
    /\ drawlog = << <<>>, <<>> >>
    /\ now = 0
    /\ wqIdle /\ mtIdle /\ extIdle

NextPair == (\E i \in {1, 2} : Step(i)) \/ Tock

SpecPair == InitPair /\ [][NextPair]_vars

-----------------------------------------------------------------------------
(* compute_wqi and check_who_compliance, each applied once to any readings *)

\* pH readings: offline, the ends of the scale, the band [6.5, 8.5] and its
\* edges
PhInputs ==
    { None, Some(0), Some(30000), Some(64900), Some(65000), Some(75000),
      Some(85000), Some(85100), Some(140000) }

\* turbidity readings: offline, the WHO limit 1.0 NTU and its neighbours, and
\* the readings whose sub-scores are the grade thresholds and 0
TurbidityInputs ==
    { None, Some(0), Some(5000), Some(9900), Some(10000), Some(30000),
      Some(50000), Some(70000), Some(100000), Some(150000) }

\* heavy-metal readings: offline, the WHO limit 0.01 PPM and its neighbours,
\* 0.05 PPM where the sub-score reaches 0, and beyond
HeavyMetalInputs ==
    { None, Some(0), Some(50000), Some(99000), Some(100000), Some(250000),
      Some(500000), Some(800000) }

InitAnalytics ==
    /\ ph_in \in PhInputs
    /\ turb_in \in TurbidityInputs
    /\ metal_in \in HeavyMetalInputs
    /\ wqi_out = None
    /\ who_out = None
    /\ simIdle /\ mtIdle /\ extIdle

CallWqi ==
    /\ wqi_out = None
    /\ wqi_out' = Some(compute_wqi(ph_in, turb_in, metal_in))
    /\ UNCHANGED <<ph_in, turb_in, metal_in, who_out, simVars, mtVars, extVars>>

CallWho ==
    /\ who_out = None
    /\ who_out' = Some(check_who_compliance(ph_in, turb_in, metal_in))
    /\ UNCHANGED <<ph_in, turb_in, metal_in, wqi_out, simVars, mtVars, extVars>>

NextAnalytics == CallWqi \/ CallWho

SpecAnalytics == InitAnalytics /\ [][NextAnalytics]_vars

-----------------------------------------------------------------------------
(* predict_maintenance, applied to a history as it grows.  Values are in   *)
(* whole percent.                                                          *)

MembraneInputs == {75, 85}

Thresholds == {80, 90}

RECURSIVE CountNone(_)
CountNone(h) ==
    IF h = <<>> THEN 0
    ELSE (IF IsNone(Head(h)) THEN 1 ELSE 0) + CountNone(Tail(h))

InitMaint ==
    /\ membrane_history = <<>>
    /\ threshold_in = 0
    /\ maint_out = None
    /\ simIdle /\ wqIdle /\ extIdle

\* a sample is appended to the history
Push(v) ==
    /\ Len(membrane_history) < MaxHist
    /\ membrane_history' = Append(membrane_history, Some(v))
    /\ maint_out' = None
    /\ UNCHANGED <<threshold_in, simVars, wqVars, extVars>>

\* a missing sample is appended to the history
PushNone ==
    /\ Len(membrane_history) < MaxHist
    /\ CountNone(membrane_history) < MaxNone
    /\ membrane_history' = Append(membrane_history, None)
    /\ maint_out' = None
    /\ UNCHANGED <<threshold_in, simVars, wqVars, extVars>>

Predict(th) ==
    /\ maint_out = None
    /\ threshold_in' = th
    /\ maint_out' = Some(predict_maintenance(membrane_history, th))
    /\ UNCHANGED <<membrane_history, simVars, wqVars, extVars>>

NextMaint ==
    \/ \E v \in MembraneInputs : Push(v)
    \/ PushNone
    \/ \E th \in Thresholds : Predict(th)

SpecMaint == InitMaint /\ [][NextMaint]_vars

-----------------------------------------------------------------------------
(* predict_maintenance on a history of floats: 85.5 % and 75.5 %, with the  *)
(* default threshold 80.0                                                   *)

MembraneFloats == { Float(171, -1), Float(151, -1) }

ThresholdFloats == { FlInt(80) }

InitMaintFloat ==
    /\ membrane_history = <<>>
    /\ threshold_in = 0
    /\ maint_out = None
    /\ simIdle /\ wqIdle /\ extIdle

\* a float sample is appended to the history
PushFloat(v) ==
    /\ Len(membrane_history) < MaxHist
    /\ membrane_history' = Append(membrane_history, Some(v))
    /\ maint_out' = None
    /\ UNCHANGED <<threshold_in, simVars, wqVars, extVars>>

PredictFloat(th) ==
    /\ maint_out = None
    /\ threshold_in' = th
    /\ maint_out' = Some(predict_maintenance_float(membrane_history, th))
    /\ UNCHANGED <<membrane_history, simVars, wqVars, extVars>>

NextMaintFloat ==
    \/ \E v \in MembraneFloats : PushFloat(v)
    \/ \E th \in ThresholdFloats : PredictFloat(th)

SpecMaintFloat == InitMaintFloat /\ [][NextMaintFloat]_vars

-----------------------------------------------------------------------------
(* compute_energy_efficiency, applied to a desalination rate and an         *)
(* irradiance                                                               *)

DesalRates == {0, 1, 80000, 1600000, 5600000, 11200000, 12000000}

Irradiances ==
    {-5000, 0, 1, 9999, 10000, 10001, 200000, 700000, 1400000}

InitEfficiency ==
    /\ desal_in \in {Some(d) : d \in DesalRates}
    /\ irr_in \in {Some(i) : i \in Irradiances}
    /\ eff_out = None
    /\ simIdle /\ wqIdle /\ mtIdle /\ clIdle /\ cmpIdle /\ csvIdle /\ sessIdle /\ anIdle /\ cadIdle

CallEfficiency ==
    /\ eff_out = None
    /\ eff_out' = Some(compute_energy_efficiency(Val(desal_in), Val(irr_in)))
    /\ UNCHANGED <<desal_in, irr_in, simVars, wqVars, mtVars, clVars, cmpVars,
                   csvVars, sessVars, anVars, cadVars>>

NextEfficiency == CallEfficiency

SpecEfficiency == InitEfficiency /\ [][NextEfficiency]_vars

-----------------------------------------------------------------------------
(* compare_stations, applied to two histories.  For each of the six keys    *)
(* the two sides are one of: A higher, B higher with a None entry on B's    *)
(* side, equal means, no present value on A's side, key absent from B.      *)

CompareKeys == {"irradiance", "membrane", "ph", "turbidity", "heavy_metal", "wqi"}

CompareCases ==
    { [a |-> Some(<<Some(20000), Some(40000)>>), b |-> Some(<<Some(20000)>>)],
      [a |-> Some(<<Some(20000)>>), b |-> Some(<<None, Some(30000)>>)],
      [a |-> Some(<<Some(20000), Some(40000)>>), b |-> Some(<<Some(30000)>>)],
      [a |-> Some(<<None>>), b |-> Some(<<Some(30000)>>)],
      [a |-> Some(<<Some(20000)>>), b |-> None] }

NamePairs == { <<"Doi Inthanon", "Chiang Rai">>, <<"Nan", "Doi Inthanon">> }

InitCompare ==
    /\ \E c \in [CompareKeys -> CompareCases] :
          /\ hist_a = Some([k \in {x \in CompareKeys : c[x].a # None} |-> Val(c[k].a)])
          /\ hist_b = Some([k \in {x \in CompareKeys : c[x].b # None} |-> Val(c[k].b)])
    /\ \E p \in NamePairs : name_a = Some(p[1]) /\ name_b = Some(p[2])
    /\ rows_out = None
    /\ simIdle /\ wqIdle /\ mtIdle /\ efIdle /\ clIdle /\ csvIdle /\ sessIdle /\ anIdle /\ cadIdle

CallCompare ==
    /\ rows_out = None
    /\ rows_out' = Some(compare_stations(Val(hist_a), Val(hist_b),
                                         Val(name_a), Val(name_b)))
    /\ UNCHANGED <<hist_a, hist_b, name_a, name_b, simVars, wqVars, mtVars,
                   efVars, clVars, csvVars, sessVars, anVars, cadVars>>

NextCompare == CallCompare

SpecCompare == InitCompare /\ [][NextCompare]_vars

-----------------------------------------------------------------------------
(* build_csv, applied to a dict of up to two histories of up to MaxCsvLen   *)
(* entries each                                                             *)

MaxCsvLen == 2

\* the sequences of up to n elements of S
RECURSIVE SeqsUpTo(_, _)
SeqsUpTo(S, n) ==
    IF n = 0 THEN {<<>>}
    ELSE LET shorter == SeqsUpTo(S, n - 1)
         IN shorter \cup {Append(s, x) : s \in shorter, x \in S}

CsvSamples(k) ==
    IF k = "ph" THEN {None, Some(70412), Some(0)}
    ELSE IF k = "membrane" THEN {None, Some(85000)}
    ELSE {None, Some(Frac(1750000, 20))}

CsvKeySets == { {}, {"ph"}, {"membrane", "ph"}, {"ph", "wqi"} }

InitCsv ==
    /\ \E ks \in CsvKeySets :
          \E m \in SeqsUpTo(CsvSamples("membrane"), MaxCsvLen),
             p \in SeqsUpTo(CsvSamples("ph"), MaxCsvLen),
             w \in SeqsUpTo(CsvSamples("wqi"), MaxCsvLen) :
             csv_hist = Some([k \in ks |-> IF k = "membrane" THEN m
                                          ELSE IF k = "ph" THEN p ELSE w])
    /\ csv_out = None
    /\ simIdle /\ wqIdle /\ mtIdle /\ efIdle /\ clIdle /\ cmpIdle /\ sessIdle /\ anIdle /\ cadIdle

CallCsv ==
    /\ csv_out = None
    /\ csv_out' = Some(build_csv(Val(csv_hist)))
    /\ UNCHANGED <<csv_hist, simVars, wqVars, mtVars, efVars, clVars, cmpVars,
                   sessVars, anVars, cadVars>>

NextCsv == CallCsv

SpecCsv == InitCsv /\ [][NextCsv]_vars

-----------------------------------------------------------------------------
(* climate_from_latitude, applied to a latitude in [-90, 90]: each          *)
(* breakpoint, its neighbours at 1e-4 degree, and points inside each zone,  *)
(* north and south                                                          *)

Breakpoints == {235000, 350000, 550000, 665000}

AbsLatitudes ==
    {0, 100000, 185883, 200000, 250000, 300000, 400000, 450000, 500000,
     600000, 650000, 700000, 800000, 900000}
    \cup UNION { {b - 1, b, b + 1} : b \in Breakpoints }

Latitudes == AbsLatitudes \cup {-a : a \in AbsLatitudes}

InitClimate ==
    /\ lat_in \in {Some(l) : l \in Latitudes}
    /\ climate_out = None
    /\ simIdle /\ wqIdle /\ mtIdle /\ efIdle /\ cmpIdle /\ csvIdle /\ sessIdle /\ anIdle /\ cadIdle

CallClimate ==
    /\ climate_out = None
    /\ climate_out' = Some(climate_from_latitude(Val(lat_in)))
    /\ UNCHANGED <<lat_in, simVars, wqVars, mtVars, efVars, cmpVars, csvVars,
                   sessVars, anVars, cadVars>>

NextClimate == CallClimate

SpecClimate == InitClimate /\ [][NextClimate]_vars

-----------------------------------------------------------------------------
(* engine/simulator.py: the custom station factory, for whole degrees *)

\* math.cos(math.radians(abs(lat))), times 1000
Cos1000(lat) == Sin1000(90 - Abs(lat) \div 10000, 360)

\* int(sha256(f"{lat:.6f},{lon:.6f}").hexdigest()[:8], 16), for the
\* coordinates the model deploys
seed_from_coordinates(lat, lon) ==
    IF lat = 0 /\ lon = 0 THEN 2143833181
    ELSE IF lat = 900000 /\ lon = 0 THEN 1077097527
    ELSE 0

irradiance_base_from_latitude(lat) == (400000 + 400 * Cos1000(lat)) \div 1000

membrane_base_from_latitude(lat) == (90000 - 3 * Cos1000(lat)) \div 1000

\* f"Custom ({lat:.2f}, {lon:.2f})", for the coordinates the model deploys
CustomName(lat, lon) ==
    IF lat = 0 /\ lon = 0 THEN "Custom (0.00, 0.00)"
    ELSE IF lat = 900000 /\ lon = 0 THEN "Custom (90.00, 0.00)"
    ELSE "Custom"

build_custom_station(lat, lon, name) ==
    StationConfig(IF name = "" THEN CustomName(lat, lon) ELSE name,
                  seed_from_coordinates(lat, lon), lat,
                  irradiance_base_from_latitude(lat),
                  membrane_base_from_latitude(lat))

-----------------------------------------------------------------------------
(* engine/graphrag.py: GraphRAGEngine.  A log line is a tuple: the time     *)
(* stamp, the kind of line, and the numbers it shows.                       *)

GraphRAGEngine(seed) == [_rng |-> Random(seed)]

\* Random.randint(lo, hi), Random.uniform(lo, hi): the value drawn
RandInt(r, lo, hi) == IF RngBit(r) = 1 THEN hi ELSE lo
Uniform(r, lo, hi) == IF RngBit(r) = 1 THEN hi ELSE lo

\* the count limited to 4, as the escalation level is
CountTrueCapped(bs) == Min(SumSeq([i \in 1 .. Len(bs) |-> IF bs[i] THEN 1 ELSE 0]), 4)

\* sum([...]) over booleans
CountTrue(bs) == SumSeq([i \in 1 .. Len(bs) |-> IF bs[i] THEN 1 ELSE 0])

\* GraphRAGEngine.analyze: the engine after the call and the lines returned
analyze(self, state, ts) ==
    LET r0 == self._rng
        nodes == RandInt(r0, 12, 47)
        r1 == RngAdvance(r0)
        irr == state.helios.solar_irradiance_wm2
        bio == state.aegis.biofouling_risk_pct
        mem == state.aegis.membrane_integrity_pct
        s == state.sentinel
        conf == Uniform(r1, 82, 97)
        r2 == IF bio > 25000 THEN RngAdvance(r1) ELSE r1
        ph_out == ~IsNone(s.ph_level)
                    /\ (Val(s.ph_level) < 65000 \/ Val(s.ph_level) > 85000)
        chain == RandInt(r2, 2, 5)
        p == Uniform(RngAdvance(r2), 60, 92)
        r3 == IF ph_out THEN RngAdvance(RngAdvance(r2)) ELSE r2
        turb_out == ~IsNone(s.turbidity_ntu) /\ Val(s.turbidity_ntu) > 40000
        metal_out == ~IsNone(s.heavy_metal_ppm) /\ Val(s.heavy_metal_ppm) > 100000
        anomalies ==
            CountTrue(<< irr < 200000, bio > 25000, mem < 80000, ph_out, turb_out,
                         metal_out, IsNone(s.ph_level), IsNone(s.turbidity_ntu),
                         IsNone(s.heavy_metal_ppm) >>)
        total == RandInt(r3, 13800, 14200)
        r4 == IF anomalies = 0 THEN RngAdvance(r3) ELSE r3
        lines ==
            << <<ts, "TRAVERSE", nodes, state.tick>> >>
            \o (IF irr < 200000
                THEN << <<ts, "LOW IRRADIANCE", RoundTo(irr, 1000)>>,
                        <<ts, "QUERY (HELIOS)-[:POWERS]->(DESAL)">> >>
                ELSE IF irr > 1100000
                THEN << <<ts, "PEAK SOLAR", RoundTo(irr, 1000)>> >>
                ELSE <<>>)
            \o (IF bio > 25000
                THEN << <<ts, "BIOFOULING RISK", RoundTo(bio, 100)>>,
                        <<ts, "INFERENCE: Engage QuorumQuenching", conf>> >>
                     \o (IF state.aegis.quorum_quenching_active
                         THEN << <<ts, "QQ_STATUS: ACTIVE">> >>
                         ELSE <<>>)
                ELSE <<>>)
            \o (IF mem < 80000
                THEN << <<ts, "MEMBRANE DEGRADATION", RoundTo(mem, 100)>> >>
                ELSE <<>>)
            \o (IF IsNone(s.ph_level)
                THEN << <<ts, "SENSOR FAULT: pH probe">> >>
                ELSE IF ph_out
                THEN << <<ts, "pH ANOMALY", RoundTo(Val(s.ph_level), 100)>>,
                        <<ts, "CAUSAL CHAIN", chain, p>> >>
                ELSE <<>>)
            \o (IF IsNone(s.turbidity_ntu)
                THEN << <<ts, "SENSOR FAULT: turbidity probe offline">> >>
                ELSE IF turb_out
                THEN << <<ts, "TURBIDITY SPIKE", RoundTo(Val(s.turbidity_ntu), 100)>> >>
                ELSE <<>>)
            \o (IF IsNone(s.heavy_metal_ppm)
                THEN << <<ts, "SENSOR FAULT: heavy metal probe offline">> >>
                ELSE IF metal_out
                THEN << <<ts, "HEAVY METAL", RoundTo(Val(s.heavy_metal_ppm), 1000)>> >>
                ELSE <<>>)
            \o (IF anomalies = 0
                THEN << <<ts, "SYSTEM NOMINAL", total>> >>
                ELSE << <<ts, "SYNTHESIS", anomalies,
                          IF anomalies = 1 THEN "anomaly" ELSE "anomalies",
                          Min(anomalies, 4)>> >>)
    IN [self |-> [self EXCEPT !._rng = r4], lines |-> lines]

\* GraphRAGEngine.detect_anomalies: the events of one snapshot, each
\* (tick, category, severity)
detect_anomalies(state) ==
    LET s == state.sentinel
        t == state.tick
    IN (IF state.helios.solar_irradiance_wm2 < 200000
        THEN << <<t, "LOW_IRRADIANCE", 1>> >> ELSE <<>>)
       \o (IF state.aegis.biofouling_risk_pct > 25000
           THEN << <<t, "BIOFOULING", 2>> >> ELSE <<>>)
       \o (IF state.aegis.membrane_integrity_pct < 80000
           THEN << <<t, "MEMBRANE", 3>> >> ELSE <<>>)
       \o (IF IsNone(s.ph_level) THEN << <<t, "PH_OFFLINE", 1>> >>
           ELSE IF Val(s.ph_level) < 65000 \/ Val(s.ph_level) > 85000
           THEN << <<t, "PH_RANGE", 2>> >> ELSE <<>>)
       \o (IF IsNone(s.turbidity_ntu) THEN << <<t, "TURBIDITY_OFFLINE", 1>> >>
           ELSE IF Val(s.turbidity_ntu) > 40000
           THEN << <<t, "TURBIDITY", 2>> >> ELSE <<>>)
       \o (IF IsNone(s.heavy_metal_ppm) THEN << <<t, "HEAVY_METAL_OFFLINE", 1>> >>
           ELSE IF Val(s.heavy_metal_ppm) > 100000
           THEN << <<t, "HEAVY_METAL", 3>> >> ELSE <<>>)

-----------------------------------------------------------------------------
(* src/app.py: the dashboard session.  st.session_state is a record; a     *)
(* deque is the sequence of its items, oldest first.                        *)

HISTORY_LEN == 60

\* deque.append on a deque built without maxlen
DequeAppendUnbounded(d, x, maxlen) == d \o <<x>>

\* deque.append on a deque built with maxlen: the oldest item leaves when full
DequeAppend(d, x, maxlen) ==
    IF Len(d) >= maxlen THEN Tail(d) \o <<x>> ELSE d \o <<x>>

RECURSIVE DequeExtend(_, _, _)
DequeExtend(d, xs, maxlen) ==
    IF xs = <<>> THEN d
    ELSE DequeExtend(DequeAppend(d, Head(xs), maxlen), Tail(xs), maxlen)

\* the registry STATIONS as a dict: name -> StationConfig
StationsDict ==
    [n \in {c.name : c \in STATIONS} |-> CHOOSE c \in STATIONS : c.name = n]

\* {**STATIONS, **custom}
_all_stations(custom) ==
    [n \in (DOMAIN StationsDict) \cup (DOMAIN custom) |->
        IF n \in DOMAIN custom THEN custom[n] ELSE StationsDict[n]]

\* {k: deque(maxlen=HISTORY_LEN) for k in _KEYS}
EmptyHist == [k \in {_KEYS[i] : i \in 1 .. Len(_KEYS)} |-> <<>>]

\* _init_session(station_name) on a session state that has custom_stations
_init_session(ss, station_name) ==
    LET cfg == _all_stations(ss.custom_stations)[station_name]
    IN [ss EXCEPT !.station = station_name,
                  !.sim = HydraSimulator(cfg),
                  !.rag = GraphRAGEngine(cfg.seed + 57),
                  !.hist = EmptyHist,
                  !.log = <<>>,
                  !.anomaly_events = <<>>,
                  !.anomaly_count = 0]

\* the two statements at module level: custom_stations = {}, _init_session()
FirstRun ==
    _init_session([station |-> "", sim |-> <<>>, rag |-> <<>>,
                   hist |-> <<>>, log |-> <<>>, anomaly_events |-> <<>>,
                   anomaly_count |-> 0,
                   custom_stations |-> [n \in {} |-> <<>>]],
                  "Doi Inthanon")

\* the value _telemetry appends to the history of key k for one snapshot
HistValue(state, k) ==
    LET irr == state.helios.solar_irradiance_wm2
        desal == state.helios.desalination_rate_lhr
        s == state.sentinel
    IN CASE k = "irradiance" -> Some(irr)
         [] k = "desal" -> Some(desal)
         [] k = "membrane" -> Some(state.aegis.membrane_integrity_pct)
         [] k = "biofouling" -> Some(state.aegis.biofouling_risk_pct)
         [] k = "ph" -> s.ph_level
         [] k = "turbidity" -> s.turbidity_ntu
         [] k = "heavy_metal" -> s.heavy_metal_ppm
         [] k = "wqi" ->
              Some(compute_wqi(s.ph_level, s.turbidity_ntu, s.heavy_metal_ppm).score)
         [] k = "efficiency" -> compute_energy_efficiency(desal, irr)

\* h[k].append(...) for every key, on deques built with maxlen=HISTORY_LEN
HistAppend(hist, state) ==
    [k \in DOMAIN hist |-> DequeAppend(hist[k], HistValue(state, k), HISTORY_LEN)]

\* _telemetry that takes the number of stored events as the anomaly count
_telemetry_count_of_stored(ss, ts) ==
    LET r == step(ss.sim, ts)
        state == r.state
        a == analyze(ss.rag, state, ts)
        new_anomalies == detect_anomalies(state)
        events == DequeExtend(ss.anomaly_events, new_anomalies, 500)
    IN [ss EXCEPT !.sim = r.self,
                  !.rag = a.self,
                  !.log = DequeExtend(@, a.lines, 200),
                  !.anomaly_events = events,
                  !.anomaly_count = Len(events),
                  !.hist = HistAppend(@, state)]

\* _telemetry(): one refresh of the telemetry fragment
_telemetry(ss, ts) ==
    LET r == step(ss.sim, ts)
        state == r.state
        a == analyze(ss.rag, state, ts)
        new_anomalies == detect_anomalies(state)
    IN [ss EXCEPT !.sim = r.self,
                  !.rag = a.self,
                  !.log = DequeExtend(@, a.lines, 200),
                  !.anomaly_events = DequeExtend(@, new_anomalies, 500),
                  !.anomaly_count = @ + Len(new_anomalies),
                  !.hist = HistAppend(@, state)]

-----------------------------------------------------------------------------
(* src/app.py: the comparison block and the global overview.  Each handler *)
(* is given the session state and returns it as it leaves it, with what it  *)
(* shows.                                                                   *)

\* a float that holds a fraction of wqi points, in units of 1e-4
Fixed(f) == RoundTo(f.num, f.den)

\* the history dict with its wqi values in units of 1e-4
FixedHist(hist) ==
    [k \in DOMAIN hist |->
        IF k = "wqi"
        THEN [i \in 1 .. Len(hist[k]) |-> Some(Fixed(Val(hist[k][i])))]
        ELSE hist[k]]

\* for _ in range(n): s = sim.step(); hist[k].append(...) for every key
\* (reading the tick makes the instance a value before the next iteration)
RECURSIVE SimRun(_, _, _, _)
SimRun(simulator, hist, n, ts) ==
    IF n = 0 \/ simulator._tick < 0 THEN [sim |-> simulator, hist |-> hist]
    ELSE LET r == step(simulator, ts)
         IN SimRun(r.self, HistAppend(hist, r.state), n - 1, ts)

\* the body of `if compare_to and st.button("Compare")`
_compare(ss, compare_to, ts) ==
    LET compare_cfg == _all_stations(ss.custom_stations)[compare_to]
        compare_sim == HydraSimulator(compare_cfg)
        run == SimRun(compare_sim, EmptyHist, 30, ts)
    IN [ss |-> ss,
        rows |-> compare_stations(FixedHist(ss.hist), FixedHist(run.hist),
                                  ss.station, compare_to)]

\* sum(vals) / len(vals) over wqi scores
WqiMean(vals) ==
    Frac(SumSeq([i \in 1 .. Len(vals) |-> Fixed(Val(vals[i]))]), Len(vals))

\* the loop that fills global_markers: station name -> marker
_overview(ss, ts) ==
    LET all_station_data == _all_stations(ss.custom_stations)
        marker(sname) ==
            LET scfg == all_station_data[sname]
                wqi_vals == SelectSeq(ss.hist["wqi"], LAMBDA v : ~IsNone(v))
                snap == SimRun(HydraSimulator(scfg), EmptyHist, 5, ts)
                wqi_avg ==
                    IF sname = ss.station
                    THEN (IF wqi_vals # <<>> THEN WqiMean(wqi_vals)
                          ELSE Frac(500000, 1))
                    ELSE WqiMean(snap.hist["wqi"])
            IN [name |-> sname, lat |-> scfg.lat, wqi_score |-> wqi_avg]
    IN [ss |-> ss,
        markers |-> [sname \in DOMAIN all_station_data |-> marker(sname)]]

-----------------------------------------------------------------------------
(* The dashboard session: the telemetry fragment, the station controls,    *)
(* the comparison, the export and the overview, run in any order.  Time     *)
(* stamps are read from the clock `now`, which stands still here.           *)

MaxSessionTicks == 62   \* telemetry refreshes per session reset

\* the (lat, lon, name) entered before "Deploy Station" is pressed
DeployInputs == { <<0, 0, "">>, <<900000, 0, "Nan">> }

SS == Val(session_state)

\* the page is drawn again: what an earlier run showed is gone
Redraw == rows_out' = None /\ csv_out' = None /\ markers_out' = None

\* nothing has been drawn since the session state last changed
Fresh == rows_out = None /\ csv_out = None /\ markers_out = None

\* what one handler draws on the page
Shows(rows, csv, markers) ==
    rows_out' = rows /\ csv_out' = csv /\ markers_out' = markers

sessFrame ==
    UNCHANGED <<simVars, wqVars, mtVars, efVars, clVars,
                hist_a, hist_b, name_a, name_b, csv_hist, anVars, cadVars>>

\* one refresh of the fragment _telemetry, in a session of at most `bound`
\* refreshes per reset
Refresh(bound) ==
    /\ SS.sim._tick < bound
    /\ session_state' = Some(_telemetry(SS, now))
    /\ Redraw
    /\ sessFrame

Telemetry == Refresh(MaxSessionTicks)

\* the station selectbox: a selection other than the current station
SelectStation(selected) ==
    /\ selected \in DOMAIN _all_stations(SS.custom_stations)
    /\ selected # SS.station
    /\ session_state' = Some(_init_session(SS, selected))
    /\ Redraw
    /\ sessFrame

\* the button "Deploy Station"
DeployStation(custom_lat, custom_lon, custom_name) ==
    LET new_cfg == build_custom_station(custom_lat, custom_lon, custom_name)
        ss1 == [SS EXCEPT !.custom_stations = DictSet(@, new_cfg.name, new_cfg)]
    IN /\ session_state' = Some(_init_session(ss1, new_cfg.name))
       /\ Redraw
       /\ sessFrame

\* the button "Compare" with compare_to selected
Compare(compare_to) ==
    /\ compare_to \in DOMAIN _all_stations(SS.custom_stations)
    /\ compare_to # SS.station
    /\ Fresh
    /\ LET r == _compare(SS, compare_to, now)
       IN /\ session_state' = Some(r.ss)
          /\ Shows(Some(r.rows), None, None)
    /\ sessFrame

\* csv_data = build_csv(st.session_state.hist)
Export ==
    /\ Fresh
    /\ Shows(None, Some(build_csv(SS.hist)), None)
    /\ UNCHANGED session_state
    /\ sessFrame

\* the global station overview
Overview ==
    /\ Fresh
    /\ LET r == _overview(SS, now)
       IN /\ session_state' = Some(r.ss)
          /\ Shows(None, None, Some(r.markers))
    /\ sessFrame

StationNames == {c.name : c \in STATIONS} \cup {"Custom (0.00, 0.00)"}

InitSession ==
    /\ session_state = Some(FirstRun)
    /\ markers_out = None
    /\ simIdle /\ wqIdle /\ mtIdle /\ efIdle /\ clIdle /\ cmpIdle /\ csvIdle
    /\ anIdle /\ cadIdle

NextSession ==
    \/ Telemetry
    \/ \E selected \in StationNames : SelectStation(selected)
    \/ \E d \in DeployInputs : DeployStation(d[1], d[2], d[3])
    \/ \E compare_to \in StationNames : Compare(compare_to)
    \/ Export
    \/ Overview

SpecSession == InitSession /\ [][NextSession]_vars

\* analyze and detect_anomalies, applied to any snapshot with values at and
\* next to the thresholds, by an engine in any of two states, a few times over
MaxCalls == 2   \* calls on one snapshot

IrradianceValues == {199999, 200000, 1100001}
BiofoulingValues == {25000, 25001}
MembraneValues == {79999, 80000}
PhValues == {None, Some(64999), Some(65000), Some(85000), Some(85001)}
TurbidityValues == {None, Some(40000), Some(40001)}
HeavyMetalValues == {None, Some(100000), Some(100001)}
EngineSeeds == {99, 682}

InitClassify ==
    /\ \E irr \in IrradianceValues, bio \in BiofoulingValues,
          mem \in MembraneValues, ph \in PhValues, turb \in TurbidityValues,
          metal \in HeavyMetalValues :
          state_in = Some(HydraState(HeliosState(irr, 8 * irr, 0),
                                     AegisState(mem, bio, bio > 20000, 0),
                                     SentinelState(ph, turb, metal, 0), 1))
    /\ \E seed \in EngineSeeds : rag_in = Some(GraphRAGEngine(seed))
    /\ classify_out = <<>>
    /\ simIdle /\ wqIdle /\ mtIdle /\ efIdle /\ clIdle /\ cmpIdle /\ csvIdle
    /\ sessIdle /\ cadIdle

\* rag.analyze(state) followed by GraphRAGEngine.detect_anomalies(state)
Classify ==
    /\ Len(classify_out) < MaxCalls
    /\ LET a == analyze(Val(rag_in), Val(state_in), now)
       IN /\ rag_in' = Some(a.self)
          /\ classify_out' = Append(classify_out,
                                    [lines |-> a.lines,
                                     events |-> detect_anomalies(Val(state_in))])
    /\ UNCHANGED <<state_in, simVars, wqVars, mtVars, efVars, clVars, cmpVars,
                   csvVars, sessVars, cadVars>>

NextClassify == Classify

SpecClassify == InitClassify /\ [][NextClassify]_vars

\* The session left running, with station changes: long enough for the
\* anomaly events to outgrow their deque
MaxEventTicks == 230   \* telemetry refreshes per session reset

LongTelemetry == Refresh(MaxEventTicks)

NextEvents ==
    \/ LongTelemetry
    \/ \E selected \in StationNames : SelectStation(selected)

SpecEvents == InitSession /\ [][NextEvents]_vars

\* Either two simulator instances stepped in any interleaving, or the
\* dashboard session with the simulators its handlers create
InitIsolation == InitPair \/ InitSession

NextIsolation ==
    \/ (sim # <<>> /\ NextPair)
    \/ (session_state # None /\ NextSession)

SpecIsolation == InitIsolation /\ [][NextIsolation]_vars

-----------------------------------------------------------------------------
(* hydra_formal_cad.py: the physical constraint models.  Lengths are whole *)
(* millimetres; a volume is a fraction, in units of pi cubic millimetres.   *)
(* Only the fields on which the system constraints depend are kept; the     *)
(* others have their defaults.                                              *)

\* HeliosSpec(dish_radius=, focal_length=, wall_thickness=): the instance,
\* or None for a ValidationError
HeliosSpec(dish_radius, focal_length, wall_thickness) ==
    IF /\ dish_radius > 10 /\ dish_radius <= 500
       /\ focal_length > 5 /\ focal_length <= 1000
       /\ wall_thickness > 1 /\ wall_thickness <= 20
       /\ ~(5 * wall_thickness >= dish_radius)
    THEN Some([dish_radius |-> dish_radius, focal_length |-> focal_length,
               wall_thickness |-> wall_thickness])
    ELSE None

\* HeliosSpec.funnel_height: R^2 / (4f)
funnel_height(self) ==
    Frac(self.dish_radius * self.dish_radius, 4 * self.focal_length)

\* HeliosSpec.funnel_volume_ml: pi * R^2 * h / 2 / 1000
funnel_volume_ml(self) ==
    Frac(self.dish_radius * self.dish_radius * funnel_height(self).num,
         funnel_height(self).den * 2)

\* AegisSpec(cylinder_radius=, height=, wall_thickness=)
AegisSpec(cylinder_radius, height, wall_thickness) ==
    IF /\ cylinder_radius > 10 /\ cylinder_radius <= 400
       /\ height > 20 /\ height <= 500
       /\ wall_thickness > 1 /\ wall_thickness <= 20
    THEN Some([cylinder_radius |-> cylinder_radius, height |-> height,
               wall_thickness |-> wall_thickness])
    ELSE None

\* AegisSpec.internal_volume_ml: pi * (r - t)^2 * h / 1000
internal_volume_ml(self) ==
    LET inner_r == self.cylinder_radius - self.wall_thickness
    IN Frac(inner_r * inner_r * self.height, 1)

\* SentinelSpec(base_radius=), with 6 ports of radius 10: the ports need
\* 6 * 2 * 10 * 1.2 = 144 mm of the circumference 2 * pi * r
SentinelSpec(base_radius) ==
    IF /\ base_radius > 20 /\ base_radius <= 500
       /\ ~(72000 > 3142 * base_radius)
    THEN Some([base_radius |-> base_radius])
    ELSE None

\* SystemSpec that accepts a base narrower than the cylinder
SystemSpecWithoutStableBase(helios, aegis, sentinel) ==
    IF FracLt(internal_volume_ml(aegis), funnel_volume_ml(helios))
    THEN [ok |-> FALSE, error |-> "Conservation of Mass violated"]
    ELSE IF aegis.cylinder_radius > helios.dish_radius
    THEN [ok |-> FALSE, error |-> "Geometric Nesting violated"]
    ELSE [ok |-> TRUE, helios |-> helios, aegis |-> aegis, sentinel |-> sentinel]

\* SystemSpec(helios=, aegis=, sentinel=) with enforce_physics: the instance,
\* or the ValueError raised
SystemSpec(helios, aegis, sentinel) ==
    IF FracLt(internal_volume_ml(aegis), funnel_volume_ml(helios))
    THEN [ok |-> FALSE, error |-> "Conservation of Mass violated"]
    ELSE IF aegis.cylinder_radius > helios.dish_radius
    THEN [ok |-> FALSE, error |-> "Geometric Nesting violated"]
    ELSE IF sentinel.base_radius < aegis.cylinder_radius
    THEN [ok |-> FALSE, error |-> "Stable Base violated"]
    ELSE [ok |-> TRUE, helios |-> helios, aegis |-> aegis, sentinel |-> sentinel]

\* Subsystem specs around the defaults (75, 50), (70, 120, 3), (80), the
\* ones that validate, and SystemSpec applied once
DishRadii == {60, 70, 75, 80}
FocalLengths == {50}
CylinderRadii == {10, 35, 70, 76}
CylinderHeights == {21, 100, 120}
BaseRadii == {22, 34, 69, 70, 80}

InitCad ==
    /\ \E R \in DishRadii, f \in FocalLengths :
          helios_in = HeliosSpec(R, f, 3) /\ helios_in # None
    /\ \E r \in CylinderRadii, h \in CylinderHeights :
          aegis_in = AegisSpec(r, h, 3) /\ aegis_in # None
    /\ \E b \in BaseRadii :
          sentinel_in = SentinelSpec(b) /\ sentinel_in # None
    /\ system_out = None
    /\ simIdle /\ wqIdle /\ mtIdle /\ efIdle /\ clIdle /\ cmpIdle /\ csvIdle
    /\ sessIdle /\ anIdle

Construct ==
    /\ system_out = None
    /\ system_out' = Some(SystemSpec(Val(helios_in), Val(aegis_in), Val(sentinel_in)))
    /\ UNCHANGED <<helios_in, aegis_in, sentinel_in, simVars, wqVars, mtVars,
                   efVars, clVars, cmpVars, csvVars, sessVars, anVars>>

NextCad == Construct

SpecCad == InitCad /\ [][NextCad]_vars

-----------------------------------------------------------------------------
(* Claims about the simulator *)

AllSnapshots ==
    UNION { { snaps[i][k] : k \in 1 .. Len(snaps[i]) } : i \in DOMAIN snaps }

\* a snapshot without the wall-clock readings it carries
WithoutTimestamps(s) ==
    [s EXCEPT !.helios.timestamp = 0, !.aegis.timestamp = 0, !.sentinel.timestamp = 0]

\* C1: two instances built with the same seed and station parameters return
\* equal k-th snapshots, in every field, for every k both have reached.
C1_SameSnapshots ==
    sim[1]._config = sim[2]._config =>
        \A k \in 1 .. Min(Len(snaps[1]), Len(snaps[2])) : snaps[1][k] = snaps[2][k]

\* What does hold of the code: the k-th snapshots agree in every field but the
\* timestamps.
SameSnapshotsButTimestamps ==
    sim[1]._config = sim[2]._config =>
        \A k \in 1 .. Min(Len(snaps[1]), Len(snaps[2])) :
            WithoutTimestamps(snaps[1][k]) = WithoutTimestamps(snaps[2][k])

\* C2: every snapshot step() returned has irradiance in [0, 1400], output
\* rate >= 0, membrane and biofouling in [0, 100] and, for each reading that
\* is present, pH in [0, 14], turbidity >= 0 and heavy metal >= 0.
C2_Bounds ==
    \A s \in AllSnapshots :
        /\ 0 <= s.helios.solar_irradiance_wm2
        /\ s.helios.solar_irradiance_wm2 <= 1400000
        /\ 0 <= s.helios.desalination_rate_lhr
        /\ 0 <= s.aegis.membrane_integrity_pct
        /\ s.aegis.membrane_integrity_pct <= 100000
        /\ 0 <= s.aegis.biofouling_risk_pct
        /\ s.aegis.biofouling_risk_pct <= 100000
        /\ ~IsNone(s.sentinel.ph_level) =>
              0 <= Val(s.sentinel.ph_level) /\ Val(s.sentinel.ph_level) <= 140000
        /\ ~IsNone(s.sentinel.turbidity_ntu) => 0 <= Val(s.sentinel.turbidity_ntu)
        /\ ~IsNone(s.sentinel.heavy_metal_ppm) => 0 <= Val(s.sentinel.heavy_metal_ppm)

\* a snapshot whose irradiance, membrane and biofouling were all out of range
\* as computed and sit on their limits, with every reading present
C2_Witness ==
    \E s \in AllSnapshots :
        /\ s.helios.solar_irradiance_wm2 = 1400000
        /\ s.aegis.membrane_integrity_pct = 100000
        /\ s.aegis.biofouling_risk_pct = 0
        /\ ~IsNone(s.sentinel.ph_level)
        /\ ~IsNone(s.sentinel.turbidity_ntu)
        /\ ~IsNone(s.sentinel.heavy_metal_ppm)

\* C3: the counter starts at 0 and the k-th step() of an instance returns a
\* snapshot with tick = k.
C3_TickIsStepCount ==
    \A i \in DOMAIN sim :
        /\ sim[i]._tick = Len(snaps[i])
        /\ \A k \in 1 .. Len(snaps[i]) : snaps[i][k].tick = k

C3_Witness ==
    /\ Len(snaps[1]) >= 2
    /\ snaps[1][1].tick = 1
    /\ snaps[1][2].tick = snaps[1][1].tick + 1

\* C4: every step() makes the same ten calls on the generator in the same
\* order, whatever the values drawn, so that after N steps the generator
\* has been read exactly 10 * N times.
C4_FixedDrawOrder ==
    \A i \in DOMAIN sim :
        /\ sim[i]._rng.idx = Len(DrawOrder) * sim[i]._tick
        /\ sim[i]._tick > 0 =>
              drawlog[i] = [j \in 1 .. Len(DrawOrder) |->
                               [kind |-> DrawOrder[j],
                                idx |-> Len(DrawOrder) * (sim[i]._tick - 1) + j - 1]]

\* a second step in which the pH and heavy-metal channels went offline and the
\* turbidity channel did not
C4_Witness ==
    /\ sim[1]._tick >= 2
    /\ IsNone(snaps[1][2].sentinel.ph_level)
    /\ ~IsNone(snaps[1][2].sentinel.turbidity_ntu)
    /\ IsNone(snaps[1][2].sentinel.heavy_metal_ppm)
    /\ Len(drawlog[1]) = Len(DrawOrder)

-----------------------------------------------------------------------------
(* Claims about compute_wqi *)

\* the weights of the claim, in percent, of the channels that are present
PresentWeights ==
    << IF IsNone(ph_in) THEN 0 ELSE 35,
       IF IsNone(turb_in) THEN 0 ELSE 35,
       IF IsNone(metal_in) THEN 0 ELSE 30 >>

\* the sub-scores of the three channels, 0 standing in for an offline one
SubScores ==
    << IF IsNone(ph_in) THEN 0 ELSE SubPh(Val(ph_in)),
       IF IsNone(turb_in) THEN 0 ELSE SubTurbidity(Val(turb_in)),
       IF IsNone(metal_in) THEN 0 ELSE SubHeavyMetal(Val(metal_in)) >>

PresentWeightSum == PresentWeights[1] + PresentWeights[2] + PresentWeights[3]

PresentWeighted ==
    PresentWeights[1] * SubScores[1] + PresentWeights[2] * SubScores[2]
        + PresentWeights[3] * SubScores[3]

AnyPresent == ~IsNone(ph_in) \/ ~IsNone(turb_in) \/ ~IsNone(metal_in)

\* C5: with at least one reading present, the score is the average of the
\* present channels' sub-scores under the weights 0.35, 0.35, 0.30 rescaled to
\* sum to 1 over the present channels.  With a channel offline it equals the
\* score that counts the offline channel as perfect only when the present
\* average is 100, and the one that counts it as zero only when that average
\* is 0; with one channel present it is that channel's sub-score.
C5_Renormalized ==
    (~IsNone(wqi_out) /\ AnyPresent) =>
        LET score == Val(wqi_out).score IN
        /\ FracEq(score, Frac(PresentWeighted, PresentWeightSum))
        /\ PresentWeightSum < 100 =>
              /\ FracEq(score, Frac(PresentWeighted + (100 - PresentWeightSum) * 1000000, 100))
                    <=> PresentWeighted = 1000000 * PresentWeightSum
              /\ FracEq(score, Frac(PresentWeighted, 100)) <=> PresentWeighted = 0
        /\ \A c \in 1 .. 3 :
              PresentWeightSum = PresentWeights[c] => FracEq(score, Frac(SubScores[c], 1))

\* pH 7.5 and turbidity 3.0 NTU with the heavy-metal channel offline: the
\* score is 85, neither 89.5 (offline as perfect) nor 59.5 (offline as zero)
C5_Witness ==
    /\ ~IsNone(wqi_out)
    /\ ph_in = Some(75000) /\ turb_in = Some(30000) /\ IsNone(metal_in)
    /\ FracEq(Val(wqi_out).score, Frac(850000, 1))

\* C6: compute_wqi returns (0.0, "N/A", "#505068") when all three readings
\* are offline and only then; with a reading present the grade is one of
\* A, B, C, D, F, also for a score of 0.
C6_NotAvailableIffAllOffline ==
    ~IsNone(wqi_out) =>
        /\ ~AnyPresent =>
              Val(wqi_out) = [score |-> Frac(0, 1), grade |-> "N/A", color |-> "#505068"]
        /\ AnyPresent => Val(wqi_out).grade \in {"A", "B", "C", "D", "F"}

\* turbidity 10 NTU and heavy metal 0.05 PPM with the pH channel offline: the
\* score is 0 and the grade is F
C6_Witness ==
    /\ ~IsNone(wqi_out)
    /\ IsNone(ph_in) /\ turb_in = Some(100000) /\ metal_in = Some(500000)
    /\ Val(wqi_out).score.num = 0
    /\ Val(wqi_out).grade = "F"

\* the score is at least p points
ScoreAtLeast(score, p) == FracLeq(Frac(p * 10000, 1), score)

\* C7: with a reading present the score is in [0, 100] and fixes the grade:
\* A from 90, B from 70, C from 50, D from 30, F below, each letter with its
\* colour.
C7_GradeBands ==
    (~IsNone(wqi_out) /\ AnyPresent) =>
        LET r == Val(wqi_out) IN
        /\ ScoreAtLeast(r.score, 0)
        /\ FracLeq(r.score, Frac(1000000, 1))
        /\ r.grade = "A" <=> ScoreAtLeast(r.score, 90)
        /\ r.grade = "B" <=> ScoreAtLeast(r.score, 70) /\ ~ScoreAtLeast(r.score, 90)
        /\ r.grade = "C" <=> ScoreAtLeast(r.score, 50) /\ ~ScoreAtLeast(r.score, 70)
        /\ r.grade = "D" <=> ScoreAtLeast(r.score, 30) /\ ~ScoreAtLeast(r.score, 50)
        /\ r.grade = "F" <=> ~ScoreAtLeast(r.score, 30)
        /\ r.color = CASE r.grade = "A" -> "#39ff14"
                       [] r.grade = "B" -> "#00f0ff"
                       [] r.grade = "C" -> "#ffd700"
                       [] r.grade = "D" -> "#ff8c00"
                       [] OTHER -> "#ff073a"

\* turbidity 1.0 NTU alone: the score is exactly 90 and the grade is A
C7_Witness ==
    /\ ~IsNone(wqi_out)
    /\ IsNone(ph_in) /\ turb_in = Some(10000) /\ IsNone(metal_in)
    /\ FracEq(Val(wqi_out).score, Frac(900000, 1))
    /\ Val(wqi_out).grade = "A"

-----------------------------------------------------------------------------
(* Claims about check_who_compliance *)

\* the per-channel results of the call made
WhoResults == { Val(who_out).checks[i][3] : i \in 1 .. 3 }

\* C8: the aggregate status is FAIL exactly when some channel's result is
\* FAIL, whatever the other channels are.
C8_FailIffAnyFail ==
    ~IsNone(who_out) => (Val(who_out).status = "FAIL" <=> "FAIL" \in WhoResults)

\* a failing channel beside an offline one
C8_Witness ==
    /\ ~IsNone(who_out)
    /\ Val(who_out).checks[1][3] = "FAIL"
    /\ Val(who_out).checks[2][3] = "OFFLINE"
    /\ Val(who_out).checks[3][3] = "PASS"
    /\ Val(who_out).status = "FAIL"

\* C9 as stated: with no channel failing the status is PASS when all present
\* channels pass (two passing and one offline give PASS), PARTIAL otherwise.
C9_PassIfPresentPass ==
    (~IsNone(who_out) /\ "FAIL" \notin WhoResults) =>
        (Val(who_out).status =
            IF \A i \in 1 .. 3 : Val(who_out).checks[i][3] \in {"PASS", "OFFLINE"}
            THEN "PASS" ELSE "PARTIAL")

\* C9 amended: with no channel failing the status is PASS when all three
\* channels are present and pass, and PARTIAL as soon as a channel is offline.
C9_PassIfAllThreePass ==
    (~IsNone(who_out) /\ "FAIL" \notin WhoResults) =>
        (Val(who_out).status = IF "OFFLINE" \in WhoResults THEN "PARTIAL" ELSE "PASS")

\* two channels pass and the third is offline: the status is PARTIAL
C9_Witness ==
    /\ ~IsNone(who_out)
    /\ Val(who_out).checks[1][3] = "PASS"
    /\ Val(who_out).checks[2][3] = "PASS"
    /\ Val(who_out).checks[3][3] = "OFFLINE"
    /\ Val(who_out).status = "PARTIAL"

-----------------------------------------------------------------------------
(* Claims about predict_maintenance *)

\* the present samples of the history the latest call was given
Data == Present(membrane_history)

AllBelowThreshold == \A i \in 1 .. Len(Data) : Data[i] < threshold_in

\* C10 as stated: at least 10 present samples, all below the threshold
\* (default 80), give ticks_remaining = 0.
C10_BelowThresholdGivesZero ==
    (~IsNone(maint_out) /\ threshold_in = 80 /\ Len(Data) >= 10 /\ AllBelowThreshold) =>
        Val(maint_out).ticks = Some(0)

\* C10 amended: at least 10 present samples, all below the threshold, with a
\* fitted slope below 0, give ticks_remaining = 0.
C10_FallingBelowThresholdGivesZero ==
    (~IsNone(maint_out) /\ Len(Data) >= 10 /\ AllBelowThreshold
        /\ Val(maint_out).slope.num < 0) =>
        Val(maint_out).ticks = Some(0)

\* a falling history below the threshold, answered with 0
C10_Witness ==
    /\ ~IsNone(maint_out)
    /\ Len(Data) >= 10
    /\ AllBelowThreshold
    /\ Data[1] > Data[Len(Data)]
    /\ Val(maint_out).slope.num < 0
    /\ Val(maint_out).ticks = Some(0)


\* a history whose present samples are all one value
Constant(d) == \A i \in 1 .. Len(d) : d[i] = d[1]

\* a history of floats, each present sample above the one before
StrictlyIncreasing(d) == \A i \in 1 .. Len(d) - 1 : FlLt(d[i], d[i + 1])

\* C11: with at least 10 present samples, ticks_remaining is None whenever
\* the fitted slope is >= 0, every strictly increasing and every constant
\* history gives None, and a number of ticks is returned only with a slope
\* below 0.
C11_NoneUnlessFalling ==
    (~IsNone(maint_out) /\ Len(Data) >= 10) =>
        /\ Val(maint_out).slope.m >= 0 => Val(maint_out).ticks = None
        /\ (Constant(Data) \/ StrictlyIncreasing(Data)) =>
              Val(maint_out).ticks = None
        /\ Val(maint_out).ticks # None => Val(maint_out).slope.m < 0

\* the history the latest call was given, with its None entries removed
Compacted == SelectSeq(membrane_history, LAMBDA x : ~IsNone(x))

\* C12: the result is the result for the present samples alone, so None
\* entries anywhere in the history change nothing; with fewer than 10 present
\* samples it is (None, 0, 0), however long the history.
C12_OnlyPresentSamplesCount ==
    ~IsNone(maint_out) =>
        /\ Val(maint_out) = predict_maintenance(Compacted, threshold_in)
        /\ Len(Compacted) < 10 =>
              Val(maint_out) =
                  [ticks |-> None, slope |-> Frac(0, 1), intercept |-> Frac(0, 1)]

\* a history with a None entry and 10 present samples, answered with a
\* forecast
C12_Witness ==
    /\ ~IsNone(maint_out)
    /\ Len(Compacted) < Len(membrane_history)
    /\ Len(Compacted) >= 10
    /\ Val(maint_out).ticks # None
    /\ Val(maint_out).ticks # Some(0)

\* the fitted line at index x, over n * denom
LineAt(x) ==
    LET o == OlsSums(Data)
    IN Frac(o.snum * x * o.n + (o.sy * o.denom - o.snum * o.sx), o.n * o.denom)

-----------------------------------------------------------------------------
(* Claims about compute_energy_efficiency *)

\* C14: the result is None exactly for an irradiance below 10 W/m2; from 10
\* W/m2 on it is desal_rate / (irradiance / 1000), a quotient whose divisor
\* is above 0.
C14_NoneIffNight ==
    ~IsNone(eff_out) =>
        LET r == Val(eff_out)
        IN /\ r = None <=> Val(irr_in) < 10000
           /\ Val(irr_in) >= 10000 =>
                 /\ r # None
                 /\ Val(r).den > 0
                 /\ Val(r) = Frac(Val(desal_in), Val(irr_in))

\* an irradiance of exactly 10 W/m2, answered with an efficiency
C14_Witness ==
    /\ ~IsNone(eff_out)
    /\ Val(irr_in) = 10000
    /\ Val(desal_in) = 80000
    /\ Val(eff_out) = Some(Frac(80000, 10000))

-----------------------------------------------------------------------------
(* Claims about compare_stations *)

\* the present values of key k in history h
PresentOf(h, k) ==
    IF k \in DOMAIN h
    THEN SelectSeq(h[k], LAMBDA x : ~IsNone(x))
    ELSE <<>>

\* sum of the present values of key k in history h
RECURSIVE PresentSum(_)
PresentSum(s) == IF s = <<>> THEN 0 ELSE Val(Head(s)) + PresentSum(Tail(s))

\* mean of A's present values for key k is above B's
MeanAbove(ha, hb, k) ==
    PresentSum(PresentOf(ha, k)) * Len(PresentOf(hb, k)) >
        PresentSum(PresentOf(hb, k)) * Len(PresentOf(ha, k))

RowLabels ==
    <<"Avg Irradiance", "Avg Membrane", "Avg pH", "Avg Turbidity",
      "Avg Heavy Metal", "Avg WQI">>

RowKeys == <<"irradiance", "membrane", "ph", "turbidity", "heavy_metal", "wqi">>

HigherIsBetter == {"irradiance", "membrane", "wqi"}

LowerIsBetter == {"turbidity", "heavy_metal"}

\* C15: six rows in the order irradiance, membrane, pH, turbidity, heavy
\* metal, WQI; each shows the mean of the present values of each side; with
\* both means present the side with the strictly higher mean wins irradiance,
\* membrane and WQI, the side with the strictly lower mean wins turbidity and
\* heavy metal, and pH has the dash; with a side without a present value,
\* delta and winner are the dash.
C15_RowsAndWinners ==
    ~IsNone(rows_out) =>
        LET rows == Val(rows_out)
            ha == Val(hist_a)
            hb == Val(hist_b)
            na == Val(name_a)
            nb == Val(name_b)
        IN /\ Len(rows) = 6
           /\ \A i \in 1 .. 6 :
                LET k == RowKeys[i]
                    pa == PresentOf(ha, k)
                    pb == PresentOf(hb, k)
                    cents == Metrics[i][5]
                IN /\ rows[i]["metric"] = RowLabels[i]
                   /\ rows[i][na] =
                        IF pa = <<>> THEN None
                        ELSE Some(RoundTo(PresentSum(pa), Len(pa) * cents))
                   /\ rows[i][nb] =
                        IF pb = <<>> THEN None
                        ELSE Some(RoundTo(PresentSum(pb), Len(pb) * cents))
                   /\ IF pa = <<>> \/ pb = <<>>
                      THEN rows[i]["delta"] = None /\ rows[i]["winner"] = Dash
                      ELSE /\ rows[i]["delta"] # None
                           /\ k = "ph" => rows[i]["winner"] = Dash
                           /\ (k \in HigherIsBetter /\ MeanAbove(ha, hb, k)) =>
                                 rows[i]["winner"] = na
                           /\ (k \in HigherIsBetter /\ MeanAbove(hb, ha, k)) =>
                                 rows[i]["winner"] = nb
                           /\ (k \in LowerIsBetter /\ MeanAbove(hb, ha, k)) =>
                                 rows[i]["winner"] = na
                           /\ (k \in LowerIsBetter /\ MeanAbove(ha, hb, k)) =>
                                 rows[i]["winner"] = nb

\* A has the higher mean turbidity, so B wins turbidity; B has the higher
\* mean membrane although its history holds a None, so B wins membrane; the
\* WQI key is absent from B, so its row has the dash
C15_Witness ==
    /\ ~IsNone(rows_out)
    /\ MeanAbove(Val(hist_a), Val(hist_b), "turbidity")
    /\ Val(rows_out)[4]["winner"] = Val(name_b)
    /\ PresentOf(Val(hist_a), "turbidity") # <<>>
    /\ PresentOf(Val(hist_b), "turbidity") # <<>>
    /\ "membrane" \in DOMAIN Val(hist_b)
    /\ Len(PresentOf(Val(hist_b), "membrane")) < Len(Val(hist_b)["membrane"])
    /\ Val(rows_out)[2]["winner"] = Val(name_b)
    /\ "wqi" \notin DOMAIN Val(hist_b)
    /\ Val(rows_out)[6]["winner"] = Dash
    /\ Val(rows_out)[3]["winner"] = Dash

-----------------------------------------------------------------------------
(* Claims about build_csv *)

\* position of the first x in s from position i on, Len(s) + 1 if there is none
RECURSIVE IndexFrom(_, _, _)
IndexFrom(s, x, i) ==
    IF i > Len(s) THEN i
    ELSE IF s[i] = x THEN i
    ELSE IndexFrom(s, x, i + 1)

\* the pieces of s between the separators sep, as a reader splits a line
RECURSIVE SplitAt(_, _)
SplitAt(s, sep) ==
    LET i == IndexFrom(s, sep, 1)
    IN IF i > Len(s) THEN <<s>>
       ELSE <<SubSeq(s, 1, i - 1)>> \o SplitAt(SubSeq(s, i + 1, Len(s)), sep)

\* the lines of a text in which each line ends with "\r\n"
RECURSIVE LinesOf(_)
LinesOf(text) ==
    IF text = <<>> THEN <<>>
    ELSE LET i == IndexFrom(text, "\r", 1)
         IN <<SubSeq(text, 1, i - 1)>> \o LinesOf(SubSeq(text, i + 2, Len(text)))

\* the table a CSV reader returns: rows of fields
ParseCsv(text) ==
    LET lines == LinesOf(text)
    IN [i \in 1 .. Len(lines) |-> SplitAt(lines[i], ",")]

DigitValue(c) == (CHOOSE d \in 1 .. 10 : DigitChars[d] = c) - 1

\* int(field) for a field of digits
RECURSIVE ParseDigits(_)
ParseDigits(f) ==
    IF Len(f) = 1 THEN DigitValue(f[1])
    ELSE 10 * ParseDigits(SubSeq(f, 1, Len(f) - 1)) + DigitValue(f[Len(f)])

ParseNumeral(f) == IF f[1] = "-" THEN -ParseDigits(Tail(f)) ELSE ParseDigits(f)

\* the value a non-empty field of key k stands for
ParseField(k, f) ==
    IF k \in FractionKeys
    THEN LET p == SplitAt(f, "/") IN Frac(ParseNumeral(p[1]), ParseNumeral(p[2]))
    ELSE ParseNumeral(f)

\* C17: the header is tick and the keys in dict order; there are exactly L rows,
\* numbered 1 .. L, for L the longest history's length; the field of key k in
\* row i is empty exactly when history k has no value at position i (None, or
\* i past its end) and otherwise reads back as the stored value.
C17_CsvRoundTrip ==
    ~IsNone(csv_out) =>
        LET h == Val(csv_hist)
            keys == Keys(h)
            table == ParseCsv(Val(csv_out))
            L == IF keys = <<>> THEN 0
                 ELSE CHOOSE n \in 0 .. MaxCsvLen + 1 :
                        /\ \A j \in 1 .. Len(keys) : Len(h[keys[j]]) <= n
                        /\ \E j \in 1 .. Len(keys) : Len(h[keys[j]]) = n
        IN /\ Len(table) = L + 1
           /\ table[1] = << <<"tick">> >> \o [j \in 1 .. Len(keys) |-> <<keys[j]>>]
           /\ \A i \in 1 .. L :
                /\ Len(table[i + 1]) = Len(keys) + 1
                /\ ParseNumeral(table[i + 1][1]) = i
                /\ \A j \in 1 .. Len(keys) :
                     LET d == h[keys[j]]
                         f == table[i + 1][j + 1]
                         missing == i > Len(d) \/ IsNone(d[i])
                     IN /\ f = <<>> <=> missing
                        /\ ~missing => ParseField(keys[j], f) = Val(d[i])

\* two histories of unequal lengths, the longer with a None entry followed by
\* a value
C17_Witness ==
    /\ ~IsNone(csv_out)
    /\ DOMAIN Val(csv_hist) = {"membrane", "ph"}
    /\ Val(csv_hist)["membrane"] = <<Some(85000)>>
    /\ Val(csv_hist)["ph"] = <<None, Some(70412)>>
    /\ Val(csv_out) =
         <<"tick", ",", "membrane", ",", "ph", "\r", "\n",
           "1", ",", "8", "5", "0", "0", "0", ",", "\r", "\n",
           "2", ",", ",", "7", "0", "4", "1", "2", "\r", "\n">>

-----------------------------------------------------------------------------
(* Claims about climate_from_latitude *)

\* the zone the breakpoints give to an absolute latitude (1e-4 degree)
ZoneOf(a) ==
    IF a < 235000 THEN "Tropical"
    ELSE IF a < 350000 THEN "Arid"
    ELSE IF a < 550000 THEN "Temperate"
    ELSE IF a < 665000 THEN "Cold"
    ELSE "Polar"

\* C18: every latitude gets the one zone of its absolute value, Tropical
\* below 23.5, Arid from 23.5 to below 35, Temperate from 35 to below 55, Cold
\* from 55 to below 66.5, Polar from 66.5 on, and lat and -lat get the same
\* profile.
C18_ZoneByAbsoluteLatitude ==
    ~IsNone(climate_out) =>
        /\ Val(climate_out).zone = ZoneOf(Abs(Val(lat_in)))
        /\ Val(climate_out).zone \in {"Tropical", "Arid", "Temperate", "Cold", "Polar"}
        /\ Val(climate_out) = climate_from_latitude(-Val(lat_in))

\* a southern latitude exactly on a breakpoint, in the zone nearer the pole
C18_Witness ==
    /\ ~IsNone(climate_out)
    /\ Val(lat_in) = -665000
    /\ Val(climate_out).zone = "Polar"

\* C19 as stated: for latitudes outside the Tropical zone, noise factor and
\* failure rate do not decrease as |lat| grows.
C19_MonotoneOutsideTropical ==
    ~IsNone(climate_out) =>
        \A l2 \in Latitudes :
            (Abs(Val(lat_in)) >= 235000 /\ Abs(Val(lat_in)) <= Abs(l2)) =>
                /\ Val(climate_out).noise_factor <=
                      climate_from_latitude(l2).noise_factor
                /\ Val(climate_out).fail_rate <= climate_from_latitude(l2).fail_rate

\* C19 amended: for latitudes outside the Tropical and Arid zones (|lat| from
\* 35 on), noise factor and failure rate do not decrease as |lat| grows.
C19_MonotoneFromTemperate ==
    ~IsNone(climate_out) =>
        \A l2 \in Latitudes :
            (Abs(Val(lat_in)) >= 350000 /\ Abs(Val(lat_in)) <= Abs(l2)) =>
                /\ Val(climate_out).noise_factor <=
                      climate_from_latitude(l2).noise_factor
                /\ Val(climate_out).fail_rate <= climate_from_latitude(l2).fail_rate

\* a Cold latitude, with a Polar latitude to compare it with
C19_Witness ==
    /\ ~IsNone(climate_out)
    /\ Val(lat_in) = 600000
    /\ Val(climate_out).zone = "Cold"
    /\ 900000 \in Latitudes
    /\ Val(climate_out).noise_factor < climate_from_latitude(900000).noise_factor
    /\ Val(climate_out).fail_rate < climate_from_latitude(900000).fail_rate

-----------------------------------------------------------------------------
(* Claims about the dashboard session *)

\* the snapshots of the first n ticks of a fresh simulator run alone
RECURSIVE SnapshotsAlone(_, _, _)
SnapshotsAlone(simulator, n, acc) ==
    IF simulator._tick >= n THEN acc
    ELSE LET r == step(simulator, 0)
         IN SnapshotsAlone(r.self, n, Append(acc, r.state))

\* the last m items of a sequence
LastOf(s, m) == SubSeq(s, Len(s) - m + 1, Len(s))

\* C16: n ticks after the last session reset, each of the nine histories
\* holds exactly the values of the last min(n, 60) ticks of the current
\* station's simulator, oldest first; so the nine histories have one common
\* length, none holds more than 60 entries, and none holds a value of
\* another station.
C16_HistoriesHoldLastTicks ==
    session_state # None =>
        LET n == SS.sim._tick
            cfg == _all_stations(SS.custom_stations)[SS.station]
            alone == SnapshotsAlone(HydraSimulator(cfg), n, <<>>)
            m == IF n <= 60 THEN n ELSE 60
        IN /\ DOMAIN SS.hist = {_KEYS[i] : i \in 1 .. Len(_KEYS)}
           /\ \A k \in DOMAIN SS.hist :
                 /\ Len(SS.hist[k]) = m
                 /\ SS.hist[k] = LastOf([i \in 1 .. n |-> HistValue(alone[i], k)], m)

\* more than 60 ticks after a station selection that followed a deployment,
\* with an offline reading among the values kept
C16_Witness ==
    /\ session_state # None
    /\ SS.station = "Chiang Rai"
    /\ DOMAIN SS.custom_stations # {}
    /\ SS.sim._tick > 60
    /\ Len(SS.hist["ph"]) = 60
    /\ \E i \in 1 .. 60 : SS.hist["ph"][i] = None

\* a fresh simulator after n step() calls with no other instance around
RECURSIVE SimulatorAlone(_, _)
SimulatorAlone(simulator, n) ==
    IF simulator._tick >= n THEN simulator
    ELSE SimulatorAlone(step(simulator, 0).self, n)

\* instance i of the pair is what it would be had it been stepped alone, and
\* so are the snapshots it returned (the wall-clock stamps aside)
AsRunAlone(i) ==
    LET n == Len(snaps[i])
        fresh == HydraSimulator(sim[i]._config)
        alone == SnapshotsAlone(fresh, n, <<>>)
    IN /\ sim[i] = SimulatorAlone(fresh, n)
       /\ \A k \in 1 .. n : WithoutTimestamps(snaps[i][k]) = WithoutTimestamps(alone[k])

\* the session simulator is what a fresh simulator of the current station is
\* after as many steps run alone
SessionAsRunAlone ==
    SS.sim = SimulatorAlone(
                 HydraSimulator(_all_stations(SS.custom_stations)[SS.station]),
                 SS.sim._tick)

\* a step in which the comparison or the overview is drawn
DrawsComparisonOrOverview ==
    /\ session_state # None
    /\ session_state' # None
    /\ (rows_out' # None \/ markers_out' # None)
    /\ (rows_out' # rows_out \/ markers_out' # markers_out)

\* C20: simulator instances are isolated.  Under any interleaving of step()
\* calls on two instances, each instance has the tick, the generator state
\* and the snapshot sequence it has when run alone; and the comparison (30
\* steps of a simulator of its own) and the overview (5 steps of one
\* simulator per other station) leave the session simulator, its tick
\* included, and the session histories as they were.
C20_InstancesIsolated ==
    /\ [](sim # <<>> => \A i \in DOMAIN sim : AsRunAlone(i))
    /\ [](session_state # None => SessionAsRunAlone)
    /\ [][DrawsComparisonOrOverview =>
            /\ Val(session_state').sim = SS.sim
            /\ Val(session_state').hist = SS.hist]_vars

\* two instances of different stations, both stepped: the second once, at
\* an instant between the two steps of the first
C20_Witness ==
    /\ sim # <<>>
    /\ sim[1]._config # sim[2]._config
    /\ sim[1]._tick = 2
    /\ sim[2]._tick = 1
    /\ snaps[1][1].helios.timestamp <= snaps[2][1].helios.timestamp
    /\ snaps[2][1].helios.timestamp <= snaps[1][2].helios.timestamp
    /\ snaps[1][1].helios.timestamp < snaps[1][2].helios.timestamp

\* the session's wqi history with the entry of every tick whose three
\* readings were all offline taken out, in units of 1e-4
MeasuredWqi ==
    [i \in 1 .. Len(SS.hist["wqi"]) |->
        IF /\ SS.hist["ph"][i] = None
           /\ SS.hist["turbidity"][i] = None
           /\ SS.hist["heavy_metal"][i] = None
        THEN None
        ELSE Some(Fixed(Val(SS.hist["wqi"][i])))]

\* C21: an offline reading is never counted as zero or as any default value:
\* the average WQI that the comparison shows for the session's station is
\* the mean of the WQI scores of the ticks that had a reading, a tick with
\* all three readings offline being left out.
C21_OfflineNeverCounted ==
    (session_state # None /\ rows_out # None) =>
        Val(rows_out)[6][SS.station] =
            (IF Present(MeasuredWqi) = <<>> THEN None
             ELSE Some(Format2f(Frac(SumSeq(Present(MeasuredWqi)),
                                     Len(Present(MeasuredWqi))), 100)))

-----------------------------------------------------------------------------
(* Further claims about the simulator *)

\* C22: in every snapshot returned by step(), quorum_quenching_active is true
\* exactly when the biofouling risk stored in that snapshot is above 20 %,
\* although the flag is computed from the value before it is clamped.
C22_FlagMatchesStoredRisk ==
    \A s \in AllSnapshots :
        s.aegis.quorum_quenching_active <=> s.aegis.biofouling_risk_pct > 20000

\* a snapshot whose biofouling risk was limited to 100 %, its flag set
C22_Witness ==
    \E s \in AllSnapshots :
        /\ s.aegis.quorum_quenching_active
        /\ s.aegis.biofouling_risk_pct = 100000

-----------------------------------------------------------------------------
(* Claims about the anomaly events of the session *)

\* the events of the snapshot that the next refresh takes
EmittedNext == detect_anomalies(step(SS.sim, now).state)

\* a step that is one telemetry refresh
IsRefresh ==
    /\ session_state # None
    /\ session_state' # None
    /\ Val(session_state').station = SS.station
    /\ Val(session_state').sim._tick = SS.sim._tick + 1

\* C23: the anomaly-event deque of the session never holds more than 500
\* events and their ticks never decrease from oldest to newest; one refresh
\* appends the events of its snapshot in order and drops only the oldest
\* ones, leaving the others as they were; the anomaly count grows by the
\* number of events of that snapshot, so it is never below the number of
\* events stored.
C23_EventDequeAndCount ==
    /\ [](session_state # None =>
            /\ Len(SS.anomaly_events) <= 500
            /\ SS.anomaly_count >= Len(SS.anomaly_events)
            /\ \A i \in 1 .. Len(SS.anomaly_events) - 1 :
                  SS.anomaly_events[i][1] <= SS.anomaly_events[i + 1][1])
    /\ [][IsRefresh =>
            LET all == SS.anomaly_events \o EmittedNext
            IN /\ Val(session_state').anomaly_events =
                     LastOf(all, IF Len(all) <= 500 THEN Len(all) ELSE 500)
               /\ Val(session_state').anomaly_count =
                     SS.anomaly_count + Len(EmittedNext)]_vars

\* the deque is full and older events have been dropped
C23_Witness ==
    /\ session_state # None
    /\ Len(SS.anomaly_events) = 500
    /\ SS.anomaly_count > 500
    /\ SS.anomaly_events[1][1] > 1

-----------------------------------------------------------------------------
(* Claims about the anomaly classification *)

\* the categories of a list of events
Categories(events) == {events[i][2] : i \in 1 .. Len(events)}

\* the categories the thresholds give for a snapshot
ExpectedCategories(state) ==
    LET s == state.sentinel
    IN {c \in {"LOW_IRRADIANCE"} : state.helios.solar_irradiance_wm2 < 200000}
       \cup {c \in {"BIOFOULING"} : state.aegis.biofouling_risk_pct > 25000}
       \cup {c \in {"MEMBRANE"} : state.aegis.membrane_integrity_pct < 80000}
       \cup {c \in {"PH_OFFLINE"} : IsNone(s.ph_level)}
       \cup {c \in {"PH_RANGE"} :
                ~IsNone(s.ph_level)
                /\ (Val(s.ph_level) < 65000 \/ Val(s.ph_level) > 85000)}
       \cup {c \in {"TURBIDITY_OFFLINE"} : IsNone(s.turbidity_ntu)}
       \cup {c \in {"TURBIDITY"} :
                ~IsNone(s.turbidity_ntu) /\ Val(s.turbidity_ntu) > 40000}
       \cup {c \in {"HEAVY_METAL_OFFLINE"} : IsNone(s.heavy_metal_ppm)}
       \cup {c \in {"HEAVY_METAL"} :
                ~IsNone(s.heavy_metal_ppm) /\ Val(s.heavy_metal_ppm) > 100000}

\* the categories of one sensor channel: offline, out of range
ChannelCategories ==
    { {"PH_OFFLINE", "PH_RANGE"},
      {"TURBIDITY_OFFLINE", "TURBIDITY"},
      {"HEAVY_METAL_OFFLINE", "HEAVY_METAL"} }

\* the number of anomalies that the last line of analyze reports
Synthesized(lines) ==
    LET last == lines[Len(lines)]
    IN IF last[2] = "SYNTHESIS" THEN last[3] ELSE 0

\* C24: the anomalies of a snapshot depend on the snapshot alone: every call
\* on it gives the same events, whatever the engine's state; an anomaly is
\* raised exactly for irradiance < 200, biofouling > 25, membrane < 80, pH
\* offline or outside [6.5, 8.5], turbidity offline or > 4.0, heavy metal
\* offline or > 0.01; a sensor channel gives at most one anomaly, so there
\* are between 0 and 6, and analyze reports that same number.
C24_ClassifiedBySnapshotAlone ==
    \A j \in 1 .. Len(classify_out) :
        LET events == classify_out[j].events
        IN /\ events = classify_out[1].events
           /\ Categories(events) = ExpectedCategories(Val(state_in))
           /\ Cardinality(Categories(events)) = Len(events)
           /\ \A ch \in ChannelCategories :
                 Cardinality(ch \cap Categories(events)) <= 1
           /\ Len(events) <= 6
           /\ \A i \in 1 .. Len(events) : events[i][1] = Val(state_in).tick
           /\ Synthesized(classify_out[j].lines) = Len(events)

\* a snapshot classified twice, with six anomalies: two channels offline and
\* one out of range
C24_Witness ==
    /\ Len(classify_out) = 2
    /\ Len(classify_out[2].events) = 6
    /\ IsNone(Val(state_in).sentinel.ph_level)
    /\ IsNone(Val(state_in).sentinel.turbidity_ntu)
    /\ ~IsNone(Val(state_in).sentinel.heavy_metal_ppm)

-----------------------------------------------------------------------------
(* Claims about the CAD constraint models *)

\* the three inequalities, on the dimensions: (r - t)^2 * H >= R^4 / (8 f),
\* r <= R, b >= r
MassConserved ==
    LET a == Val(aegis_in)
        h == Val(helios_in)
        inner_r == a.cylinder_radius - a.wall_thickness
    IN 8 * h.focal_length * inner_r * inner_r * a.height
          >= h.dish_radius * h.dish_radius * h.dish_radius * h.dish_radius
Nested == Val(aegis_in).cylinder_radius <= Val(helios_in).dish_radius
StableBase == Val(sentinel_in).base_radius >= Val(aegis_in).cylinder_radius

\* C25: SystemSpec built from valid subsystem specs succeeds exactly when
\* AEGIS internal volume >= HELIOS funnel volume, AEGIS radius <= HELIOS
\* dish radius and SENTINEL base radius >= AEGIS radius all hold; otherwise
\* an error is raised and no object is produced; the defaults succeed.
C25_ThreeInequalities ==
    system_out # None =>
        /\ Val(system_out).ok <=> (MassConserved /\ Nested /\ StableBase)
        /\ Val(system_out).ok =>
              Val(system_out) = [ok |-> TRUE, helios |-> Val(helios_in),
                                 aegis |-> Val(aegis_in),
                                 sentinel |-> Val(sentinel_in)]
        /\ ~Val(system_out).ok => DOMAIN Val(system_out) = {"ok", "error"}
        /\ (/\ helios_in = HeliosSpec(75, 50, 3)
            /\ aegis_in = AegisSpec(70, 120, 3)
            /\ sentinel_in = SentinelSpec(80)) => Val(system_out).ok

\* SystemSpec succeeded with the two volumes equal and the base wider than
\* the cylinder
C25_Witness ==
    /\ system_out # None
    /\ Val(system_out).ok
    /\ FracEq(internal_volume_ml(Val(aegis_in)), funnel_volume_ml(Val(helios_in)))
    /\ Val(sentinel_in).base_radius > Val(aegis_in).cylinder_radius

\* the uniform draw that the latest step() of instance i made for `kind`
UniformDraw(i, kind) ==
    LET j == CHOOSE k \in 1 .. Len(drawlog[i]) : drawlog[i][k].kind = kind
    IN RandomValue([reg |-> sim[i]._rng.reg, idx |-> drawlog[i][j].idx])

\* C26: in each tick each sensor channel is offline exactly when that
\* channel's own uniform draw of that tick is below the failure rate of the
\* climate, whatever the other two channels, the reading and the previous
\* tick were.
C26_OfflineByOwnDraw ==
    \A i \in DOMAIN sim :
        sim[i]._tick > 0 =>
            LET s == snaps[i][Len(snaps[i])].sentinel
                fail == sim[i]._climate.fail_rate
            IN /\ IsNone(s.ph_level) <=> UniformDraw(i, "ph_offline") < fail
               /\ IsNone(s.turbidity_ntu) <=> UniformDraw(i, "turbidity_offline") < fail
               /\ IsNone(s.heavy_metal_ppm) <=> UniformDraw(i, "metal_offline") < fail

\* one channel offline alone in a tick, and back online in the next tick
\* while another channel went offline
C26_Witness ==
    /\ sim # <<>>
    /\ Len(snaps[1]) = 2
    /\ IsNone(snaps[1][1].sentinel.ph_level)
    /\ ~IsNone(snaps[1][1].sentinel.turbidity_ntu)
    /\ ~IsNone(snaps[1][1].sentinel.heavy_metal_ppm)
    /\ ~IsNone(snaps[1][2].sentinel.ph_level)
    /\ IsNone(snaps[1][2].sentinel.turbidity_ntu)

\* the Gaussian draw that the latest step() of instance i made for `kind`
GaussianDraw(i, kind, sigma) ==
    LET j == CHOOSE k \in 1 .. Len(drawlog[i]) : drawlog[i][k].kind = kind
    IN GaussValue([reg |-> sim[i]._rng.reg, idx |-> drawlog[i][j].idx], sigma)

\* C27: in every snapshot the desalination rate is max(0, 0.008 * the
\* irradiance of that snapshot + the output-noise draw of that tick), also
\* when the irradiance was limited to 0 or to 1400.
C27_RateFollowsSnapshotIrradiance ==
    \A i \in DOMAIN sim :
        sim[i]._tick > 0 =>
            LET h == snaps[i][Len(snaps[i])].helios
            IN h.desalination_rate_lhr =
                  Max(0, 8 * h.solar_irradiance_wm2
                         + GaussianDraw(i, "desal_noise", 100000))

-----------------------------------------------------------------------------
(* Claims about the exported CSV of a session *)

\* the simulator tick that produced position i of the session's histories:
\* _telemetry appends one entry per tick to every history and the histories
\* keep the last entries, so the last position belongs to the current tick
ProducedAt(i) == SS.sim._tick - Len(SS.hist["irradiance"]) + i

\* C28: in the CSV exported from a session, the tick column of every data row
\* is the simulator tick that produced the row's values, also after more ticks
\* than the histories hold.
C28_TickColumnIsSimulatorTick ==
    ~IsNone(csv_out) /\ ~IsNone(session_state) =>
        LET table == ParseCsv(Val(csv_out))
        IN \A i \in 1 .. Len(table) - 1 :
               ParseNumeral(table[i + 1][1]) = ProducedAt(i)

\* C28 as the code has it: the tick column of row i is the position i in the
\* histories; the values of row i were produced at tick i + max(0, T - 60) for
\* a session whose simulator is at tick T, so the column is the simulator
\* tick exactly while the session has made at most 60 ticks.
C28_TickColumnIsPosition ==
    ~IsNone(csv_out) /\ ~IsNone(session_state) =>
        LET table == ParseCsv(Val(csv_out))
            dropped == Max(0, SS.sim._tick - HISTORY_LEN)
        IN /\ Len(table) - 1 = SS.sim._tick - dropped
           /\ \A i \in 1 .. Len(table) - 1 :
                /\ ParseNumeral(table[i + 1][1]) = i
                /\ ProducedAt(i) = i + dropped

\* an export after 61 ticks: 60 rows, the first numbered 1 with the values of
\* tick 2
C28_Witness ==
    /\ ~IsNone(csv_out)
    /\ ~IsNone(session_state)
    /\ SS.sim._tick = HISTORY_LEN + 1
    /\ Len(ParseCsv(Val(csv_out))) = HISTORY_LEN + 1
    /\ ParseNumeral(ParseCsv(Val(csv_out))[2][1]) = 1
    /\ ProducedAt(1) = 2

-----------------------------------------------------------------------------
(* Claims about the argument order of compare_stations *)

\* the rows of the same comparison with the two stations exchanged
SwappedRows ==
    compare_stations(Val(hist_b), Val(hist_a), Val(name_b), Val(name_a))

\* C29: exchanging the two histories together with their names leaves the
\* winner of every metric unchanged and negates the delta; two equal means
\* prefer neither station by its position.
C29_ArgumentOrderIrrelevant ==
    ~IsNone(rows_out) =>
        \A i \in 1 .. Len(Metrics) :
            LET row == Val(rows_out)[i]
                swapped == SwappedRows[i]
            IN /\ row["winner"] = swapped["winner"]
               /\ IsNone(row["delta"]) <=> IsNone(swapped["delta"])
               /\ ~IsNone(row["delta"]) =>
                     Val(row["delta"]).hundredths = Val(swapped["delta"]).hundredths

-----------------------------------------------------------------------------
(* Claims about the regression denominator of predict_maintenance *)

\* C30: with at least 10 present samples the denominator
\* n * sum(i^2) - (sum(i))^2 over the indices 0 .. n-1 is positive, whatever
\* the samples, being n^2 * (n^2 - 1) / 12; the result then carries the
\* slope (n * sxy - sx * sy) / denom, never the return of the branch for a
\* zero denominator.
C30_DenominatorPositive ==
    LET o == OlsSums(Data)
    IN Len(Data) >= 10 =>
          /\ o.denom > 0
          /\ 12 * o.denom = o.n * o.n * (o.n * o.n - 1)
          /\ ~IsNone(maint_out) =>
                 /\ Val(maint_out).slope = Frac(o.snum, o.denom)
                 /\ Val(maint_out).slope.den # 0

\* a prediction over 11 entries of which one is missing and the rest are
\* equal: 10 present samples, denominator 825, slope 0 / 825
C30_Witness ==
    /\ ~IsNone(maint_out)
    /\ Len(membrane_history) = 11
    /\ Len(Data) = 10
    /\ \A i \in 1 .. 10 : Data[i] = 85
    /\ OlsSums(Data).denom = 825
    /\ Val(maint_out).slope = Frac(0, 825)

=============================================================================
